---- MODULE Spec2Model ----
(***************************************************************************)
(* The streaming engine of crates/aiflow/ai.rs: responses_stream() (the    *)
(* Responses dialect) and stream() (the Chat dialect).  One behaviour is   *)
(* one stream invocation: the generator body from the creation of the      *)
(* assistant message to its return, the backend's event stream as the      *)
(* environment, and the tool tasks of the JoinSet as concurrent processes. *)
(*                                                                         *)
(* Strings are sequences of tokens, so that concatenation, prefixes and    *)
(* JSON repair are computed and not assumed.  part_index is 0-based as in  *)
(* the source; parts[part_index + 1] is the part it designates.            *)
(***************************************************************************)
EXTENDS Integers, Sequences, FiniteSets, TLC

\* ---------------------------------------------------------------- bounds
\* Requests (turns) one invocation may issue.
MaxTurns == 2
\* Backend events (Responses) or chunks (Chat) delivered over one invocation.
MaxEvents == 3
\* Parts of the message of an input transcript.
MaxParts == 2

\* ------------------------------------------------------- backend alphabet
\* Tokens of an argument fragment and of a text fragment.
ArgTok == {"{", "a"}
TextTok == {"h", "i"}
\* Argument seeds an announcing event may carry: empty, or a first fragment.
ArgSeeds == {<< >>, <<"{">>}
\* Text seeds a ContentPartAdded event may carry.
TextSeeds == {<< >>, <<"h">>}
\* Tool names the model may call; "nope" is in no registry.
Names == {"add", "live", "ask", "nope"}
\* content_index values of one message output item.
ContentIdx == {0, 1}

\* ------------------------------------------------------------ data model
\* serde_json::Value, as far as the engine produces it.
Null == [tag |-> "null", n |-> 0]
Obj(n) == [tag |-> "obj", n |-> n]

\* Option<Value> of ToolCall::result.
None == [kind |-> "None", v |-> Null, name |-> ""]
\* The value an executor returns for the args it was handed.
Ret(args) == [kind |-> "Ret", v |-> args, name |-> ""]
\* json!(format!("Error: {error}"))
ErrorValue == [kind |-> "Error", v |-> Null, name |-> ""]
\* The message without the name of the tool.
NoSuchTool_Mut(name) == [kind |-> "NoSuchTool", v |-> Null, name |-> ""]
\* json!(format!("No such tool: {}", tool.name))
NoSuchTool(name) == [kind |-> "NoSuchTool", v |-> Null, name |-> name]

TextPart(text) == [kind |-> "Text", text |-> text]
\* Part::Error(ErrorPart { error }), by the error's display form.
ErrorPart(text) == [kind |-> "Error", text |-> text]
ToolPart(id, name) ==
    [kind |-> "Tool", id |-> id, name |-> name, args |-> Null, result |-> None]

\* Message { id, role: Role::Assistant, parts: Vec::new() }
NewMessage == [role |-> "assistant", parts |-> << >>]

\* The registry (tool::Set): add is executed by the engine once, live is
\* streamable, ask is a client tool (no executor).
tools ==
    [add |-> [stream |-> FALSE, execute |-> TRUE],
     live |-> [stream |-> TRUE, execute |-> TRUE],
     ask |-> [stream |-> FALSE, execute |-> FALSE]]

tools_get(name) == name \in DOMAIN tools
is_streamable(name) == tools[name].stream
\* Tool::execute returns Some(future) exactly when an executor is set.
execute(name) == tools[name].execute

\* --------------------------------------------------------- pure functions
RECURSIVE CountTok(_, _)
CountTok(s, t) ==
    IF s = << >> THEN 0
    ELSE (IF Head(s) = t THEN 1 ELSE 0) + CountTok(Tail(s), t)

\* repair_json::repair: a truncated object ("{", then keys) is completed;
\* a string that does not begin an object, or opens a second one where a
\* key is expected, cannot be repaired; a string cut inside an escape
\* sequence (the fragment "\\") cannot be repaired until the next fragment
\* ends the sequence.
Repairable(s) ==
    /\ Len(s) >= 1
    /\ s[1] = "{"
    /\ \A i \in 2..Len(s) : s[i] \in {"a", "\\"}
    /\ s[Len(s)] # "\\"

\* parse_incomplete_json(args).unwrap_or_default()
parse_incomplete_json(s) ==
    IF Repairable(s) THEN Obj(CountTok(s, "a")) ELSE Null

\* push_str with the operands exchanged: the fragment is put in front.
push_str_Mut(acc, delta) == delta \o acc

\* String::push_str
push_str(acc, delta) == acc \o delta

\* push that inserts the new part at the front of the vector.
push_Mut(ps, part) == <<part>> \o ps

\* Vec::push on message.parts
push(ps, part) == Append(ps, part)

\* F(x), with x evaluated once: the accumulator of a loop is computed
\* before the next iteration uses it.
Apply(F(_), x) == CHOOSE r \in {F(v) : v \in {x}} : TRUE

IsPrefix(s, t) == Len(s) <= Len(t) /\ SubSeq(t, 1, Len(s)) = s

\* Message::tool_calls().filter(|c| c.result.is_none()).count() > 0
HasUnresolvedToolCall(ps) ==
    \E i \in 1..Len(ps) :
        ps[i].kind = "Tool" /\ ps[i].result = None

\* ------------------------------------------------------- usage accounting
Models == {"gpt-4.1", "gpt-4.1-mini", "gpt-4.1-nano", "o3", "o4-mini"}

\* Model::cost_per_input_token, in billionths of a dollar (the rate per
\* million tokens, times a thousand).
cost_per_input_token(model) ==
    CASE model = "gpt-4.1" -> 2000
      [] model = "gpt-4.1-mini" -> 400
      [] model = "gpt-4.1-nano" -> 100
      [] model = "o3" -> 10000
      [] model = "o4-mini" -> 1100

\* Model::cost_per_cached_input_token
cost_per_cached_input_token(model) ==
    CASE model = "gpt-4.1" -> 500
      [] model = "gpt-4.1-mini" -> 100
      [] model = "gpt-4.1-nano" -> 25
      [] model = "o3" -> 2500
      [] model = "o4-mini" -> 275

\* Model::cost_per_output_token
cost_per_output_token(model) ==
    CASE model = "gpt-4.1" -> 8000
      [] model = "gpt-4.1-mini" -> 1600
      [] model = "gpt-4.1-nano" -> 400
      [] model = "o3" -> 40000
      [] model = "o4-mini" -> 4400

\* saturating_sub as a signed subtraction.
saturating_sub_Mut(a, b) == a - b

\* u32::saturating_sub
saturating_sub(a, b) == IF a >= b THEN a - b ELSE 0

\* Usage that takes the raw prompt tokens as the input tokens.
Usage_Mut(report) ==
    [cached_input_tokens |-> report.cached,
     input_tokens |-> report.prompt,
     output_tokens |-> report.output]

\* The Usage the engine builds from a backend report.
Usage(report) ==
    [cached_input_tokens |-> report.cached,
     input_tokens |-> saturating_sub(report.prompt, report.cached),
     output_tokens |-> report.output]

\* Model::cost that bills the input tokens at the cached rate as well.
cost_Mut(model, usage) ==
    cost_per_cached_input_token(model) * usage.input_tokens
    + cost_per_cached_input_token(model) * usage.cached_input_tokens
    + cost_per_output_token(model) * usage.output_tokens

\* Model::cost
cost(model, usage) ==
    cost_per_input_token(model) * usage.input_tokens
    + cost_per_cached_input_token(model) * usage.cached_input_tokens
    + cost_per_output_token(model) * usage.output_tokens

\* ------------------------------------------------------------------ state
VARIABLES
    dialect,            \* "responses": responses_stream(); "chat": stream()
    backend,            \* what the backend draws its events from in this run
    config,             \* the invocation's arguments: GenerateConfig, messages, executor setup
    session,            \* the caller's Session { cursor, cost }
    reports,            \* usage and previous_response_id of every completion event received
    request,            \* the request built last
    lockOps,            \* what the engine's last step did with the message's mutex
    pc,                 \* position of the generator body
    assistant_message,  \* the shared Arc<Mutex<Message>>
    deltas,             \* Responses: (output_index, content_index) -> (string, part_index)
    tool_deltas,        \* Chat: tool_call index -> (string, part_index)
    running,            \* tasks of the JoinSet that have not completed
    finished,           \* completed tasks join_next has not returned yet, in completion order
    obs,                \* the observation sequence the consumer has received
    requests,           \* requests issued so far (the current turn's number)
    nEvents,            \* backend events delivered so far
    items,              \* the backend's stream of this turn: its output items / call indexes
    completed,          \* the backend has sent this turn's completion event
    turnStart,          \* parts.len() when the turn's request was built
    announced,          \* this turn's announcements, in arrival order
    delivered,          \* per key of this turn: every fragment delivered, concatenated
    contentFed,         \* Chat: every content fragment delivered, concatenated
    spawnLog,           \* every execution spawned: where, for which part, on which args
    joinLog,            \* every execution join_next returned, in join order
    aborted             \* executions dropped with the JoinSet before being joined

vars ==
    <<dialect, backend, config, session, reports, request, lockOps, pc, assistant_message, deltas, tool_deltas, running, finished, obs,
      requests, nEvents, items, completed, turnStart, announced, delivered, contentFed,
      spawnLog, joinLog, aborted>>

parts == assistant_message.parts

\* The empty BTreeMap.
EmptyMap == [k \in {} |-> 0]

\* BTreeMap::insert
insert(map, key, value) ==
    [k \in DOMAIN map \cup {key} |-> IF k = key THEN value ELSE map[k]]

\* co.yield_(Ok(Arc::clone(&assistant_message))): what the consumer can read
\* from the message at the moment of the yield.
YieldOk(message, nreq) ==
    Append(obs, [ok |-> TRUE, role |-> message.role,
                 nparts |-> Len(message.parts), nreq |-> nreq])
\* co.yield_(Err(anyhow!("Failed to create stream: ...")))
YieldErr(message, nreq) ==
    Append(obs, [ok |-> FALSE, role |-> message.role,
                 nparts |-> Len(message.parts), nreq |-> nreq])

\* JoinSet::is_empty
JoinSetIsEmpty == running = {} /\ finished = << >>

\* The call id the backend assigns to the call at output index out of a turn.
CallId(turn, out) == turn * 10 + out + 1

\* Option<String> of previous_response_id and of Session::cursor.
NoId == [some |-> FALSE, id |-> 0]
SomeId(id) == [some |-> TRUE, id |-> id]

\* Option<Usage> of a completion event: the raw prompt (input) token count,
\* the cached tokens among them, and the output tokens.
NoUsage == [some |-> FALSE, prompt |-> 0, cached |-> 0, output |-> 0]
SomeUsage(prompt, cached, output) ==
    [some |-> TRUE, prompt |-> prompt, cached |-> cached, output |-> output]

\* No request has been built.
NoRequest == [model |-> "", input |-> << >>, previous_response_id |-> NoId]

\* The events of a backend that reports no usage and no response id.
AnyBackend ==
    [names |-> Names, argSeeds |-> ArgSeeds, argTok |-> ArgTok,
     textSeeds |-> TextSeeds, textTok |-> TextTok,
     usage |-> {NoUsage}, previous_response_id |-> {NoId}]

\* The arguments of an invocation: GenerateConfig::default(), a transcript
\* of one user message, and the registry of tools.
DefaultConfig ==
    [model |-> "gpt-4.1", extractors |-> <<"Id", "Args", "Context">>, context |-> "T",
     messages |-> <<[role |-> "user", parts |-> <<TextPart(<<"h">>)>>]>>]

\* ------------------------------------------------------------ requests
\* The repetition of a token.
Rep(t, n) == [i \in 1..n |-> t]

\* Value::to_string
to_string(value) ==
    IF value.tag = "null" THEN <<"null">>
    ELSE <<"{">> \o Rep("a", value.n) \o <<"}">>

\* to_string of a result value: the executor's value, or the engine's message.
result_to_string(result) ==
    IF result.kind = "Ret" THEN to_string(result.v)
    ELSE IF result.kind = "Error" THEN <<"Error: ">>
    ELSE <<"No such tool: ", result.name>>

\* An item of a Responses input list; a message of a Chat request.
InputItem(type, role, call_id, name, text) ==
    [type |-> type, role |-> role, call_id |-> call_id, name |-> name, text |-> text,
     tool_calls |-> << >>]

\* ToolCall_into_items that puts the output of a call before the call.
ToolCall_into_items_Mut(tool) ==
    (IF tool.result # None
     THEN <<InputItem("function_call_output", "", tool.id, "",
                      result_to_string(tool.result))>>
     ELSE << >>)
    \o <<InputItem("function_call", "", tool.id, tool.name, to_string(tool.args))>>

\* openai_responses.rs 59-82: the call, then its output if it has a result.
ToolCall_into_items(tool) ==
    <<InputItem("function_call", "", tool.id, tool.name, to_string(tool.args))>>
    \o (IF tool.result # None
        THEN <<InputItem("function_call_output", "", tool.id, "",
                         result_to_string(tool.result))>>
        ELSE << >>)

\* ItemsPart that lowers an error part whatever the role of the message.
ItemsPart_Mut(st, role, part) ==
    IF part.kind = "Text"
    THEN [st EXCEPT !.items = Append(@, InputItem("message", role, 0, "", part.text))]
    ELSE IF part.kind = "Tool"
    THEN IF role # "assistant" THEN [st EXCEPT !.ok = FALSE]
         ELSE [st EXCEPT !.items = @ \o ToolCall_into_items(part)]
    ELSE [st EXCEPT
            !.items = Append(@, InputItem("message", "developer", 0, "", part.text))]

\* openai_responses.rs 13-45: one step of the loop over the parts: one
\* item per text part, the items of a tool part, one developer item per
\* error part; a tool part outside an assistant message and an error part
\* outside a developer message end the conversion with an error.
ItemsPart(st, role, part) ==
    IF part.kind = "Text"
    THEN [st EXCEPT !.items = Append(@, InputItem("message", role, 0, "", part.text))]
    ELSE IF part.kind = "Tool"
    THEN IF role # "assistant" THEN [st EXCEPT !.ok = FALSE]
         ELSE [st EXCEPT !.items = @ \o ToolCall_into_items(part)]
    ELSE IF role # "developer" THEN [st EXCEPT !.ok = FALSE]
         ELSE [st EXCEPT
                 !.items = Append(@, InputItem("message", "developer", 0, "", part.text))]

\* openai_responses.rs 9-49
RECURSIVE Message_into_items(_, _, _)
Message_into_items(st, role, ps) ==
    IF ~st.ok THEN [ok |-> FALSE, items |-> << >>]
    ELSE IF ps = << >> THEN st
    ELSE LET Rest(next) == Message_into_items(next, role, Tail(ps))
         IN  Apply(Rest, ItemsPart(st, role, Head(ps)))

\* async_openai.rs 130-161: the tool call of an assistant message.
ToolCall_into_call(tool) ==
    [id |-> tool.id, name |-> tool.name, arguments |-> to_string(tool.args)]

\* async_openai.rs 23-27, 78-82: the pending tool messages are flushed.
Flush(st) == [st EXCEPT !.messages = @ \o st.tool_messages, !.tool_messages = << >>]

\* ChatPart that pushes a text message without flushing the pending tool
\* messages first.
ChatPart_Mut(st, role, part) ==
    IF part.kind = "Text"
    THEN [st EXCEPT
            !.messages = Append(@, InputItem("message", role, 0, "", part.text))]
    ELSE IF part.kind = "Error"
    THEN IF role # "developer" THEN [st EXCEPT !.ok = FALSE]
         ELSE [Flush(st) EXCEPT
                 !.messages = Append(@, InputItem("message", "developer", 0, "", part.text))]
    ELSE IF role # "assistant" THEN [st EXCEPT !.ok = FALSE]
    ELSE LET n == Len(st.messages)
             merged ==
                IF n > 0 /\ st.messages[n].role = "assistant"
                THEN [st EXCEPT
                        !.messages[n].tool_calls = Append(@, ToolCall_into_call(part))]
                ELSE [st EXCEPT
                        !.messages = Append(@,
                            [InputItem("message", "assistant", 0, "", << >>) EXCEPT
                                !.tool_calls = <<ToolCall_into_call(part)>>])]
         IN  IF part.result # None
             THEN [merged EXCEPT
                     !.tool_messages = Append(@,
                         InputItem("message", "tool", part.id, "",
                                   result_to_string(part.result)))]
             ELSE merged

\* async_openai.rs 20-77: one step of the loop over the parts.
ChatPart(st, role, part) ==
    IF part.kind = "Text"
    THEN [Flush(st) EXCEPT
            !.messages = Append(@, InputItem("message", role, 0, "", part.text))]
    ELSE IF part.kind = "Error"
    THEN IF role # "developer" THEN [st EXCEPT !.ok = FALSE]
         ELSE [Flush(st) EXCEPT
                 !.messages = Append(@, InputItem("message", "developer", 0, "", part.text))]
    ELSE IF role # "assistant" THEN [st EXCEPT !.ok = FALSE]
    ELSE LET n == Len(st.messages)
             merged ==
                IF n > 0 /\ st.messages[n].role = "assistant"
                THEN [st EXCEPT
                        !.messages[n].tool_calls = Append(@, ToolCall_into_call(part))]
                ELSE [st EXCEPT
                        !.messages = Append(@,
                            [InputItem("message", "assistant", 0, "", << >>) EXCEPT
                                !.tool_calls = <<ToolCall_into_call(part)>>])]
         IN  IF part.result # None
             THEN [merged EXCEPT
                     !.tool_messages = Append(@,
                         InputItem("message", "tool", part.id, "",
                                   result_to_string(part.result)))]
             ELSE merged

\* async_openai.rs 14-85
RECURSIVE Message_into_messages(_, _, _)
Message_into_messages(st, role, ps) ==
    IF ~st.ok THEN [ok |-> FALSE, items |-> << >>]
    ELSE IF ps = << >> THEN [ok |-> TRUE, items |-> Flush(st).messages]
    ELSE LET Rest(next) == Message_into_messages(next, role, Tail(ps))
         IN  Apply(Rest, ChatPart(st, role, Head(ps)))

\* Vec::try_from(message), in the dialect of the invocation.
try_from(message) ==
    IF dialect = "responses"
    THEN Message_into_items([ok |-> TRUE, items |-> << >>], message.role, message.parts)
    ELSE Message_into_messages(
            [ok |-> TRUE, messages |-> << >>, tool_messages |-> << >>],
            message.role, message.parts)

\* The input transcript of the invocation.
messages == config.messages

\* ai.rs 186-194, 497-505: the encoded input transcript.
thread == try_from(messages[1]).items

\* The request that forgets the assistant message.
current_thread_Mut(message) == thread

\* ai.rs 209-217, 520-528: the transcript, extended with the encoded
\* assistant message unless it has no part.
current_thread(message) ==
    IF message.parts # << >> THEN thread \o try_from(message).items ELSE thread

\* ai.rs 219-230, 530-544
Request(input) ==
    [model |-> config.model, input |-> input,
     previous_response_id |-> IF dialect = "responses" THEN session.cursor ELSE NoId]

\* ------------------------------------------------------- initial state
\* The state when responses_stream() or stream() returns: the generator
\* has not been polled; the call has panicked on a transcript that does not
\* convert (ai.rs 186-190, 497-501: expect("to convert messages")).
InitEngine ==
    /\ dialect \in {"responses", "chat"}
    /\ reports = << >>
    /\ request = NoRequest
    /\ lockOps = << >>
    /\ pc = IF try_from(messages[1]).ok THEN "Idle" ELSE "Panicked"
    /\ assistant_message = NewMessage
    /\ deltas = EmptyMap
    /\ tool_deltas = EmptyMap
    /\ running = {}
    /\ finished = << >>
    /\ obs = << >>
    /\ requests = 0
    /\ nEvents = 0
    /\ items = << >>
    /\ completed = FALSE
    /\ turnStart = 0
    /\ announced = << >>
    /\ delivered = EmptyMap
    /\ contentFed = << >>
    /\ spawnLog = << >>
    /\ joinLog = << >>
    /\ aborted = {}

Init ==
    /\ backend = AnyBackend
    /\ config = DefaultConfig
    /\ session = [cursor |-> NoId, cost |-> 0]
    /\ InitEngine

\* --------------------------------------------------------- the mutex
\* Guarded that never releases the guard.
Guarded_Mut(body) == <<"lock">> \o body

\* assistant_message.lock().await, the accesses made through the guard, and
\* the drop of the guard (by drop(), at the end of its block or statement).
Guarded(body) == <<"lock">> \o body \o <<"unlock">>

\* ai.rs 571-583: the scrutinee's guard covers the push_str; it is dropped
\* before the else block, which locks again for the push.
AccumulateTextLocks(ps, content) ==
    IF ~content.some THEN << >>
    ELSE IF Len(ps) > 0 /\ ps[Len(ps)].kind = "Text"
         THEN Guarded(<<"mutate">>)
         ELSE Guarded(<< >>) \o Guarded(<<"mutate">>)

\* --------------------------------------------------------- generator body
\* FirstYield with the first observation moved behind the first request.
FirstYield_Mut ==
    /\ pc = "Idle"
    /\ pc' = "Streaming"
    /\ requests' = requests + 1
    /\ obs' = YieldOk(assistant_message, requests + 1)
    /\ lockOps' = <<"yield">>
    /\ UNCHANGED <<dialect, backend, config, session, reports, request,
                   assistant_message, deltas, tool_deltas, running, finished,
                   nEvents, items, completed, turnStart, announced, delivered,
                   contentFed, spawnLog, joinLog, aborted>>

\* ai.rs 200-206, 511-517: the message is created and yielded at once.
FirstYield ==
    /\ pc = "Idle"
    /\ pc' = "Loop"
    /\ obs' = YieldOk(assistant_message, requests)
    /\ lockOps' = <<"yield">>
    /\ UNCHANGED <<dialect, backend, config, session, reports, request,
                   assistant_message, deltas, tool_deltas, running, finished,
                   requests, nEvents, items, completed, turnStart, announced,
                   delivered, contentFed, spawnLog, joinLog, aborted>>

\* What every new turn starts from: a fresh map and a fresh JoinSet.
NewTurn ==
    /\ requests' = requests + 1
    /\ deltas' = EmptyMap
    /\ tool_deltas' = EmptyMap
    /\ running' = {}
    /\ finished' = << >>
    /\ items' = << >>
    /\ completed' = FALSE
    /\ turnStart' = Len(parts)
    /\ announced' = << >>
    /\ delivered' = EmptyMap

\* ai.rs 208-235, 519-556: build the request, open the stream.
IssueRequest ==
    /\ pc = "Loop"
    /\ requests < MaxTurns
    /\ NewTurn
    /\ request' = Request(current_thread(assistant_message))
    /\ pc' = "Streaming"
    /\ lockOps' = Guarded(<< >>)
    /\ UNCHANGED <<dialect, backend, config, session, reports,
                   assistant_message, obs, nEvents, contentFed, spawnLog,
                   joinLog, aborted>>

\* ai.rs 546-553: create_stream rejects the request (Chat; the Responses
\* client reports a rejected request as the first item of the stream). The
\* map and the JoinSet of the turn before went out of scope with its
\* iteration of the loop.
CreateStreamFails ==
    /\ pc = "Loop"
    /\ dialect = "chat"
    /\ requests < MaxTurns
    /\ NewTurn
    /\ request' = Request(current_thread(assistant_message))
    /\ obs' = YieldErr(assistant_message, requests + 1)
    /\ pc' = "Failed"
    /\ lockOps' = Guarded(<< >>) \o <<"yield">>
    /\ UNCHANGED <<dialect, backend, config, session, reports,
                   assistant_message, nEvents, contentFed, spawnLog, joinLog,
                   aborted>>

\* ------------------------------------------------------- tool dispatch
\* SpawnsOnDelta without the is_streamable test.
SpawnsOnDelta_Mut(name) ==
    tools_get(name) /\ execute(name)

\* ai.rs 365-376, 623-635: an argument delta spawns an execution for a
\* registered, streamable tool that has an executor.
SpawnsOnDelta(name) ==
    tools_get(name) /\ is_streamable(name) /\ execute(name)

\* SpawnsOnDone without the is_streamable test.
SpawnsOnDone_Mut(name) ==
    tools_get(name) /\ execute(name)

\* ai.rs 401-413, 675-685: finalized arguments spawn an execution for a
\* registered, non-streamable tool that has an executor.
SpawnsOnDone(name) ==
    tools_get(name) /\ ~is_streamable(name) /\ execute(name)

\* tool_executions.spawn(future.map(move |result| (part_index, result)))
Task(tool, part_index, at) ==
    [eid |-> Len(spawnLog) + 1, turn |-> requests, part |-> part_index,
     id |-> tool.id, name |-> tool.name, args |-> tool.args, at |-> at]

Spawn(tool, part_index, at) ==
    /\ running' = running \cup {Task(tool, part_index, at)}
    /\ spawnLog' = Append(spawnLog, Task(tool, part_index, at))

\* ----------------------------------------- Responses dialect: the events
Consuming(d) ==
    /\ pc = "Streaming"
    /\ dialect = d
    /\ ~completed
    /\ nEvents < MaxEvents
    /\ nEvents' = nEvents + 1

\* ai.rs 281-300 (and the yield of 423).
OutputItemAdded ==
    /\ Consuming("responses")
    /\ \E name \in backend.names, seed \in backend.argSeeds :
        LET out == Len(items)
            part_index == Len(parts)
            id == CallId(requests, out)
        IN  /\ deltas' = insert(deltas, <<out, 0>>, [str |-> seed, part |-> part_index])
            /\ assistant_message' =
                   [assistant_message EXCEPT !.parts = push(@, ToolPart(id, name))]
            /\ items' = Append(items, [type |-> "fc", done |-> FALSE, ncontent |-> 0])
            /\ announced' = Append(announced, [kind |-> "Tool", id |-> id])
            /\ delivered' = insert(delivered, <<out, 0>>, seed)
    /\ obs' = YieldOk(assistant_message', requests)
    /\ lockOps' = Guarded(<<"mutate">>) \o <<"yield">>
    /\ UNCHANGED <<dialect, backend, config, session, reports, request, pc,
                   tool_deltas, running, finished, requests, completed,
                   turnStart, contentFed, spawnLog, joinLog, aborted>>

\* The keys at which the backend may announce a content part: content 0 of
\* a new message item, or the next content of a message item it has opened.
NewContentKeys ==
    {<<Len(items), 0>>} \cup
    {<<o, items[o + 1].ncontent>> : o \in {o \in 0..(Len(items) - 1) :
        items[o + 1].type = "msg" /\ items[o + 1].ncontent \in ContentIdx}}

\* ai.rs 301-317 (and the yield of 423): Text and Refusal alike.
ContentPartAdded ==
    /\ Consuming("responses")
    /\ \E key \in NewContentKeys, text \in backend.textSeeds :
        LET part_index == Len(parts)
        IN  /\ deltas' = insert(deltas, key, [str |-> text, part |-> part_index])
            /\ assistant_message' =
                   [assistant_message EXCEPT !.parts = push(@, TextPart(text))]
            /\ items' = IF key[1] = Len(items)
                        THEN Append(items, [type |-> "msg", done |-> FALSE, ncontent |-> 1])
                        ELSE [items EXCEPT ![key[1] + 1].ncontent = @ + 1]
            /\ announced' = Append(announced, [kind |-> "Text", id |-> 0])
            /\ delivered' = insert(delivered, key, text)
    /\ obs' = YieldOk(assistant_message', requests)
    /\ lockOps' = Guarded(<<"mutate">>) \o <<"yield">>
    /\ UNCHANGED <<dialect, backend, config, session, reports, request, pc,
                   tool_deltas, running, finished, requests, completed,
                   turnStart, contentFed, spawnLog, joinLog, aborted>>

\* ai.rs 319-346 (and the yield of 423): OutputTextDelta and RefusalDelta.
OutputTextDelta ==
    /\ Consuming("responses")
    /\ \E key \in {k \in DOMAIN deltas : items[k[1] + 1].type = "msg"}, delta \in backend.textTok :
        LET text == push_str(deltas[key].str, <<delta>>)
            part_index == deltas[key].part
        IN  /\ deltas' = [deltas EXCEPT ![key].str = text]
            /\ assistant_message' =
                   [assistant_message EXCEPT !.parts[part_index + 1].text = text]
            /\ delivered' = [delivered EXCEPT ![key] = @ \o <<delta>>]
    /\ obs' = YieldOk(assistant_message', requests)
    /\ lockOps' = Guarded(<<"mutate">>) \o <<"yield">>
    /\ UNCHANGED <<dialect, backend, config, session, reports, request, pc,
                   tool_deltas, running, finished, requests, items, completed,
                   turnStart, announced, contentFed, spawnLog, joinLog,
                   aborted>>

\* The output indexes whose function call is still receiving arguments.
OpenCalls ==
    {o \in 0..(Len(items) - 1) : items[o + 1].type = "fc" /\ ~items[o + 1].done}

\* FunctionCallArgumentsDelta that keeps the arguments of the part when the
\* accumulated string cannot be repaired.
FunctionCallArgumentsDelta_Keep ==
    /\ Consuming("responses")
    /\ \E output_index \in OpenCalls, delta \in backend.argTok :
        LET args == push_str(deltas[<<output_index, 0>>].str, <<delta>>)
            part_index == deltas[<<output_index, 0>>].part
            tool == IF Repairable(args)
                    THEN [parts[part_index + 1] EXCEPT !.args = parse_incomplete_json(args)]
                    ELSE parts[part_index + 1]
        IN  /\ deltas' = [deltas EXCEPT ![<<output_index, 0>>].str = args]
            /\ assistant_message' =
                   [assistant_message EXCEPT !.parts[part_index + 1] = tool]
            /\ delivered' = [delivered EXCEPT ![<<output_index, 0>>] = @ \o <<delta>>]
            /\ IF SpawnsOnDelta(tool.name)
               THEN Spawn(tool, part_index, "delta")
               ELSE UNCHANGED <<running, spawnLog>>
    /\ lockOps' = Guarded(<<"mutate">>)
    /\ UNCHANGED <<dialect, backend, config, session, reports, request, pc,
                   tool_deltas, finished, obs, requests, items, completed,
                   turnStart, announced, contentFed, joinLog, aborted>>

\* ai.rs 347-379: no observation follows (every path continues the loop).
FunctionCallArgumentsDelta ==
    /\ Consuming("responses")
    /\ \E output_index \in OpenCalls, delta \in backend.argTok :
        LET args == push_str(deltas[<<output_index, 0>>].str, <<delta>>)
            part_index == deltas[<<output_index, 0>>].part
            tool == [parts[part_index + 1] EXCEPT !.args = parse_incomplete_json(args)]
        IN  /\ deltas' = [deltas EXCEPT ![<<output_index, 0>>].str = args]
            /\ assistant_message' =
                   [assistant_message EXCEPT !.parts[part_index + 1] = tool]
            /\ delivered' = [delivered EXCEPT ![<<output_index, 0>>] = @ \o <<delta>>]
            /\ IF SpawnsOnDelta(tool.name)
               THEN Spawn(tool, part_index, "delta")
               ELSE UNCHANGED <<running, spawnLog>>
    /\ lockOps' = Guarded(<<"mutate">>)
    /\ UNCHANGED <<dialect, backend, config, session, reports, request, pc,
                   tool_deltas, finished, obs, requests, items, completed,
                   turnStart, announced, contentFed, joinLog, aborted>>

\* ai.rs 382-416: no observation follows.
FunctionCallArgumentsDone ==
    /\ Consuming("responses")
    /\ \E output_index \in OpenCalls :
        LET part_index == deltas[<<output_index, 0>>].part
            tool == parts[part_index + 1]
        IN  /\ items' = [items EXCEPT ![output_index + 1].done = TRUE]
            /\ IF ~tools_get(tool.name)
               THEN /\ assistant_message' =
                          [assistant_message EXCEPT
                              !.parts[part_index + 1].result = NoSuchTool(tool.name)]
                    /\ lockOps' = Guarded(<<"mutate">>)
                    /\ UNCHANGED <<running, spawnLog>>
               ELSE /\ UNCHANGED assistant_message
                    /\ lockOps' = Guarded(<< >>)
                    /\ IF SpawnsOnDone(tool.name)
                       THEN Spawn(tool, part_index, "done")
                       ELSE UNCHANGED <<running, spawnLog>>
    /\ UNCHANGED <<dialect, backend, config, session, reports, request, pc,
                   deltas, tool_deltas, finished, obs, requests, completed,
                   turnStart, announced, delivered, contentFed, joinLog,
                   aborted>>

\* ResponseCompleted that assigns the event's previous_response_id to the
\* cursor also when it is absent.
ResponseCompleted_Mut ==
    /\ Consuming("responses")
    /\ completed' = TRUE
    /\ \E previous_response_id \in backend.previous_response_id, usage \in backend.usage :
        /\ session' =
               [cursor |-> previous_response_id,
                cost |-> IF usage.some THEN session.cost + cost(config.model, Usage(usage))
                         ELSE session.cost]
        /\ reports' = Append(reports, [turn |-> requests, usage |-> usage,
                                    previous_response_id |-> previous_response_id])
    /\ obs' = YieldOk(assistant_message, requests)
    /\ lockOps' = <<"yield">>
    /\ UNCHANGED <<dialect, backend, config, request, pc, assistant_message,
                   deltas, tool_deltas, running, finished, requests, items,
                   turnStart, announced, delivered, contentFed, spawnLog,
                   joinLog, aborted>>

\* ai.rs 261-280 (and the yield of 423): the turn's completion event.
ResponseCompleted ==
    /\ Consuming("responses")
    /\ completed' = TRUE
    /\ \E previous_response_id \in backend.previous_response_id, usage \in backend.usage :
        /\ session' =
               [cursor |-> IF previous_response_id.some THEN previous_response_id
                           ELSE session.cursor,
                cost |-> IF usage.some THEN session.cost + cost(config.model, Usage(usage))
                         ELSE session.cost]
        /\ reports' = Append(reports, [turn |-> requests, usage |-> usage,
                                    previous_response_id |-> previous_response_id])
    /\ obs' = YieldOk(assistant_message, requests)
    /\ lockOps' = <<"yield">>
    /\ UNCHANGED <<dialect, backend, config, request, pc, assistant_message,
                   deltas, tool_deltas, running, finished, requests, items,
                   turnStart, announced, delivered, contentFed, spawnLog,
                   joinLog, aborted>>

\* ai.rs 417-420: every other event is ignored.
OtherEvent ==
    /\ Consuming("responses")
    /\ lockOps' = << >>
    /\ UNCHANGED <<dialect, backend, config, session, reports, request, pc,
                   assistant_message, deltas, tool_deltas, running, finished,
                   obs, requests, items, completed, turnStart, announced,
                   delivered, contentFed, spawnLog, joinLog, aborted>>

\* ---------------------------------------------- Chat dialect: the chunks
\* Option<String> of delta.content.
NoContent == [some |-> FALSE, text |-> << >>]
SomeContent(text) == [some |-> TRUE, text |-> text]

\* A tool_call_delta: its index, and its function (name and arguments) if any.
ToolCallDelta(index, function, name, arguments) ==
    [index |-> index, function |-> function, name |-> name, arguments |-> arguments]

\* The tool_call_deltas the backend may send next: the announcement of the
\* next index (with a name and a first argument fragment), or a fragment
\* (or a delta without a function) for an index it has announced.
NextToolCallDeltas ==
    {ToolCallDelta(Len(items), TRUE, name, seed) : name \in backend.names, seed \in backend.argSeeds}
    \cup {ToolCallDelta(i, TRUE, "", <<t>>) : i \in 0..(Len(items) - 1), t \in backend.argTok}
    \cup {ToolCallDelta(i, FALSE, "", << >>) : i \in 0..(Len(items) - 1)}

\* The chunks with a choice the backend may send next.
NextChunks ==
    {[content |-> SomeContent(<<t>>), tool_calls |-> << >>] : t \in backend.textTok}
    \cup {[content |-> NoContent, tool_calls |-> <<d>>] : d \in NextToolCallDeltas}
    \cup {[content |-> SomeContent(<<"h">>), tool_calls |-> <<d>>] :
            d \in {d \in NextToolCallDeltas : d.index = Len(items) /\ d.arguments = << >>}}
    \cup {[content |-> NoContent, tool_calls |-> << >>]}

\* AccumulateText that appends the content to the latest Text part of the
\* message, wherever it stands.
AccumulateText_Mut(ps, content) ==
    IF ~content.some THEN ps
    ELSE IF \E i \in 1..Len(ps) : ps[i].kind = "Text"
         THEN LET last == CHOOSE i \in 1..Len(ps) :
                            /\ ps[i].kind = "Text"
                            /\ \A j \in (i + 1)..Len(ps) : ps[j].kind # "Text"
              IN  [ps EXCEPT ![last].text = push_str(@, content.text)]
         ELSE push(ps, TextPart(content.text))

\* ai.rs 571-583: content goes to the last part if it is a Text part, and
\* starts a new Text part otherwise.
AccumulateText(ps, content) ==
    IF ~content.some THEN ps
    ELSE IF Len(ps) > 0 /\ ps[Len(ps)].kind = "Text"
         THEN [ps EXCEPT ![Len(ps)].text = push_str(@, content.text)]
         ELSE push(ps, TextPart(content.text))

\* VacantEntry that registers the index the part vector had before the text
\* of the chunk was accumulated.
VacantEntry_Mut(st, d) ==
    [st EXCEPT
        !.parts = push(@, ToolPart(CallId(requests, d.index), d.name)),
        !.map = insert(@, d.index, [str |-> << >>, part |-> Len(parts)]),
        !.locks = @ \o Guarded(<< >>) \o Guarded(<<"mutate">>)]

\* ai.rs 589-608: a new index appends a Tool part and registers
\* (String::new(), index).
VacantEntry(st, d) ==
    [st EXCEPT
        !.parts = push(@, ToolPart(CallId(requests, d.index), d.name)),
        !.map = insert(@, d.index, [str |-> << >>, part |-> Len(st.parts)]),
        !.locks = @ \o Guarded(<< >>) \o Guarded(<<"mutate">>)]

\* OccupiedEntry that keeps the last fragment instead of the accumulated
\* string.
OccupiedEntry_Mut(st, d) ==
    LET part_index == st.map[d.index].part
        args == IF d.function THEN d.arguments
                ELSE st.map[d.index].str
        tool == IF d.function
                THEN [st.parts[part_index + 1] EXCEPT !.args = parse_incomplete_json(args)]
                ELSE st.parts[part_index + 1]
    IN  [st EXCEPT
            !.parts[part_index + 1] = tool,
            !.map[d.index].str = args,
            !.spawns = IF SpawnsOnDelta(tool.name)
                       THEN Append(@, [part |-> part_index, tool |-> tool])
                       ELSE @,
            !.locks = @ \o Guarded(IF d.function THEN <<"mutate">> ELSE << >>)]

\* ai.rs 609-637: a known index appends the fragment, reparses, and spawns
\* a streamable executor.
OccupiedEntry(st, d) ==
    LET part_index == st.map[d.index].part
        args == IF d.function THEN push_str(st.map[d.index].str, d.arguments)
                ELSE st.map[d.index].str
        tool == IF d.function
                THEN [st.parts[part_index + 1] EXCEPT !.args = parse_incomplete_json(args)]
                ELSE st.parts[part_index + 1]
    IN  [st EXCEPT
            !.parts[part_index + 1] = tool,
            !.map[d.index].str = args,
            !.spawns = IF SpawnsOnDelta(tool.name)
                       THEN Append(@, [part |-> part_index, tool |-> tool])
                       ELSE @,
            !.locks = @ \o Guarded(IF d.function THEN <<"mutate">> ELSE << >>)]

\* ai.rs 586-640: for tool_call_delta in tool_call_deltas.
RECURSIVE AccumulateToolCalls(_, _)
AccumulateToolCalls(st, ds) ==
    IF ds = << >> THEN st
    ELSE LET Rest(next) == AccumulateToolCalls(next, Tail(ds))
         IN  Apply(Rest, IF Head(ds).index \in DOMAIN st.map
                         THEN OccupiedEntry(st, Head(ds))
                         ELSE VacantEntry(st, Head(ds)))

\* The tasks of a list of (part_index, tool) spawns, numbered in spawn order.
Tasks(spawns, at) ==
    {[eid |-> Len(spawnLog) + i, turn |-> requests, part |-> spawns[i].part,
      id |-> spawns[i].tool.id, name |-> spawns[i].tool.name,
      args |-> spawns[i].tool.args, at |-> at] : i \in 1..Len(spawns)}

TaskLog(spawns, at) ==
    [i \in 1..Len(spawns) |->
        CHOOSE t \in Tasks(spawns, at) : t.eid = Len(spawnLog) + i]

\* What the backend announces with a chunk: a text run when content arrives
\* and the message does not end in text, then every new tool index.
ChunkAnnounces(chunk) ==
    (IF chunk.content.some /\ ~(Len(parts) > 0 /\ parts[Len(parts)].kind = "Text")
     THEN <<[kind |-> "Text", id |-> 0]>> ELSE << >>)
    \o (IF chunk.tool_calls # << >> /\ chunk.tool_calls[1].index = Len(items)
        THEN <<[kind |-> "Tool", id |-> CallId(requests, Len(items))]>> ELSE << >>)

\* ChatChunk whose else branch of the text accumulation locks the mutex
\* while the guard of the if-let scrutinee is still held: the handler never
\* returns from a chunk that starts a text part.
ChatChunk_Deadlock ==
    /\ Consuming("chat")
    /\ \E chunk \in NextChunks :
        LET st == AccumulateToolCalls(
                    [parts |-> AccumulateText(parts, chunk.content),
                     map |-> tool_deltas, spawns |-> << >>,
                     locks |-> AccumulateTextLocks(parts, chunk.content)],
                    chunk.tool_calls)
            d == chunk.tool_calls[1]
        IN  IF chunk.content.some /\ ~(Len(parts) > 0 /\ parts[Len(parts)].kind = "Text")
            THEN /\ pc' = "Deadlocked"
                 /\ lockOps' = <<"lock", "lock">>
                 /\ UNCHANGED <<assistant_message, tool_deltas, running, spawnLog,
                                announced, contentFed, items, delivered, obs>>
            ELSE /\ assistant_message' = [assistant_message EXCEPT !.parts = st.parts]
                 /\ tool_deltas' = st.map
                 /\ running' = running \cup Tasks(st.spawns, "delta")
                 /\ spawnLog' = spawnLog \o TaskLog(st.spawns, "delta")
                 /\ announced' = announced \o ChunkAnnounces(chunk)
                 /\ contentFed' = contentFed \o chunk.content.text
                 /\ lockOps' = st.locks \o <<"yield">>
                 /\ IF chunk.tool_calls = << >>
                    THEN UNCHANGED <<items, delivered>>
                    ELSE IF d.index = Len(items)
                    THEN /\ items' = Append(items, [type |-> "fc", done |-> FALSE, ncontent |-> 0])
                         /\ delivered' = insert(delivered, d.index, d.arguments)
                    ELSE /\ UNCHANGED items
                         /\ delivered' = [delivered EXCEPT ![d.index] = @ \o d.arguments]
                 /\ obs' = YieldOk(assistant_message', requests)
                 /\ pc' = pc
    /\ UNCHANGED <<dialect, backend, config, session, reports, request, deltas,
                   finished, requests, completed, turnStart, joinLog, aborted>>

\* ai.rs 568-643: a chunk with a choice; an observation follows.
ChatChunk ==
    /\ Consuming("chat")
    /\ \E chunk \in NextChunks :
        LET st == AccumulateToolCalls(
                    [parts |-> AccumulateText(parts, chunk.content),
                     map |-> tool_deltas, spawns |-> << >>,
                     locks |-> AccumulateTextLocks(parts, chunk.content)],
                    chunk.tool_calls)
            d == chunk.tool_calls[1]
        IN  /\ assistant_message' = [assistant_message EXCEPT !.parts = st.parts]
            /\ tool_deltas' = st.map
            /\ running' = running \cup Tasks(st.spawns, "delta")
            /\ spawnLog' = spawnLog \o TaskLog(st.spawns, "delta")
            /\ announced' = announced \o ChunkAnnounces(chunk)
            /\ contentFed' = contentFed \o chunk.content.text
            /\ lockOps' = st.locks \o <<"yield">>
            /\ IF chunk.tool_calls = << >>
               THEN UNCHANGED <<items, delivered>>
               ELSE IF d.index = Len(items)
               THEN /\ items' = Append(items, [type |-> "fc", done |-> FALSE, ncontent |-> 0])
                    /\ delivered' = insert(delivered, d.index, d.arguments)
               ELSE /\ UNCHANGED items
                    /\ delivered' = [delivered EXCEPT ![d.index] = @ \o d.arguments]
    /\ obs' = YieldOk(assistant_message', requests)
    /\ UNCHANGED <<dialect, backend, config, session, reports, request, pc,
                   deltas, finished, requests, completed, turnStart, joinLog,
                   aborted>>

\* ai.rs 568, 645-660: the final chunk has no choice; no observation follows.
ChatLastChunk ==
    /\ Consuming("chat")
    /\ completed' = TRUE
    /\ \E usage \in backend.usage :
        /\ session' =
               [session EXCEPT !.cost =
                   IF usage.some THEN @ + cost(config.model, Usage(usage)) ELSE @]
        /\ reports' = Append(reports, [turn |-> requests, usage |-> usage,
                                       previous_response_id |-> NoId])
    /\ lockOps' = << >>
    /\ UNCHANGED <<dialect, backend, config, request, pc, assistant_message,
                   deltas, tool_deltas, running, finished, obs, requests, items,
                   turnStart, announced, delivered, contentFed, spawnLog,
                   joinLog, aborted>>

\* ------------------------------------------------- the end of a stream
Min(S) == CHOOSE x \in S : \A y \in S : x <= y

\* ai.rs 663-687: the Chat sweep over tool_deltas, in key order.
RECURSIVE Sweep(_, _)
Sweep(st, keys) ==
    IF keys = {} THEN st
    ELSE LET part_index == tool_deltas[Min(keys)].part
             tool == st.parts[part_index + 1]
             next ==
                IF ~tools_get(tool.name)
                THEN [st EXCEPT !.parts[part_index + 1].result = NoSuchTool(tool.name),
                                !.locks = @ \o Guarded(<<"mutate">>)]
                ELSE IF SpawnsOnDone(tool.name)
                THEN [st EXCEPT !.spawns = Append(@, [part |-> part_index, tool |-> tool]),
                                !.locks = @ \o Guarded(<< >>)]
                ELSE [st EXCEPT !.locks = @ \o Guarded(<< >>)]
             Rest(swept) == Sweep(swept, keys \ {Min(keys)})
         IN  Apply(Rest, next)

\* AfterStream without the early return on an empty JoinSet.
AfterStream_Mut(joinSetIsEmpty) == "Draining"

\* ai.rs 426-428, 689-691: if tool_executions.is_empty() { return; }
AfterStream(joinSetIsEmpty) == IF joinSetIsEmpty THEN "Done" ELSE "Draining"

\* ai.rs 237 (stream.next() returns None), 426-428.
ResponsesStreamEnd ==
    /\ pc = "Streaming"
    /\ dialect = "responses"
    /\ pc' = AfterStream(JoinSetIsEmpty)
    /\ lockOps' = << >>
    /\ UNCHANGED <<dialect, backend, config, session, reports, request,
                   assistant_message, deltas, tool_deltas, running, finished,
                   obs, requests, nEvents, items, completed, turnStart,
                   announced, delivered, contentFed, spawnLog, joinLog,
                   aborted>>

\* ai.rs 558 (stream.next() returns None), 663-691.
ChatStreamEnd ==
    /\ pc = "Streaming"
    /\ dialect = "chat"
    /\ LET st == Sweep([parts |-> parts, spawns |-> << >>, locks |-> << >>],
                       DOMAIN tool_deltas)
       IN  /\ assistant_message' = [assistant_message EXCEPT !.parts = st.parts]
           /\ lockOps' = st.locks
           /\ running' = running \cup Tasks(st.spawns, "sweep")
           /\ spawnLog' = spawnLog \o TaskLog(st.spawns, "sweep")
           /\ pc' = AfterStream(running' = {} /\ finished = << >>)
    /\ UNCHANGED <<dialect, backend, config, session, reports, request, deltas,
                   tool_deltas, finished, obs, requests, nEvents, items,
                   completed, turnStart, announced, delivered, contentFed,
                   joinLog, aborted>>

\* The range of a sequence.
Range(q) == {q[i] : i \in 1..Len(q)}

\* StreamError without the return: the error is yielded and the loop goes on.
StreamError_Mut ==
    /\ pc = "Streaming"
    /\ ~completed
    /\ nEvents < MaxEvents
    /\ nEvents' = nEvents + 1
    /\ obs' = YieldErr(assistant_message, requests)
    /\ lockOps' = <<"yield">>
    /\ UNCHANGED <<dialect, backend, config, session, reports, request, pc,
                   assistant_message, deltas, tool_deltas, running, finished,
                   requests, items, completed, turnStart, announced, delivered,
                   contentFed, spawnLog, joinLog, aborted>>

\* StreamError that also forgets the session's cursor.
StreamError_Reset ==
    /\ pc = "Streaming"
    /\ ~completed
    /\ obs' = YieldErr(assistant_message, requests)
    /\ pc' = "Failed"
    /\ aborted' = aborted \cup {t.eid : t \in running} \cup {t.eid : t \in Range(finished)}
    /\ running' = {}
    /\ finished' = << >>
    /\ lockOps' = <<"yield">>
    /\ session' = [session EXCEPT !.cursor = NoId]
    /\ UNCHANGED <<dialect, backend, config, reports, request,
                   assistant_message, deltas, tool_deltas, requests, nEvents,
                   items, completed, turnStart, announced, delivered,
                   contentFed, spawnLog, joinLog>>

\* ai.rs 240-256, 561-565: the stream yields an error; the error is
\* yielded and the generator returns, which drops the JoinSet and aborts
\* the tasks it still holds.
StreamError ==
    /\ pc = "Streaming"
    /\ ~completed
    /\ obs' = YieldErr(assistant_message, requests)
    /\ pc' = "Failed"
    /\ aborted' = aborted \cup {t.eid : t \in running} \cup {t.eid : t \in Range(finished)}
    /\ running' = {}
    /\ finished' = << >>
    /\ lockOps' = <<"yield">>
    /\ UNCHANGED <<dialect, backend, config, session, reports, request,
                   assistant_message, deltas, tool_deltas, requests, nEvents,
                   items, completed, turnStart, announced, delivered,
                   contentFed, spawnLog, joinLog>>

\* ------------------------------------------------------------ the tasks
\* tool/extract.rs 24-36: Args<T> deserializes the args value into T (an
\* object with its required key); null and an object without the key fail.
Deserializes(args) == args.tag = "obj" /\ args.n >= 1

\* tool.rs 88-92: the call state an executor's extractors consume; context
\* is the type the tool's context was registered as ("None": no context).
Call(args) == [context |-> config.context, id |-> TRUE, args |-> TRUE, value |-> args]

\* Id::try_from that reports an absent id as an error value.
Id_try_from_Mut(state) ==
    IF state.id THEN [r |-> "ok", state |-> [state EXCEPT !.id = FALSE]]
    ELSE [r |-> "err", state |-> state]

\* tool/extract.rs 12-19: state.id.take().expect("id to exist")
Id_try_from(state) ==
    IF state.id THEN [r |-> "ok", state |-> [state EXCEPT !.id = FALSE]]
    ELSE [r |-> "panic", state |-> state]

\* tool/extract.rs 24-36: from_value(state.args.take().expect("args to exist"))
Args_try_from(state) ==
    IF ~state.args THEN [r |-> "panic", state |-> state]
    ELSE [r |-> IF Deserializes(state.value) THEN "ok" ELSE "err",
          state |-> [state EXCEPT !.args = FALSE]]

\* tool/extract.rs 41-55: take().expect("context to exist").downcast().expect("to be a T")
Context_try_from(state) ==
    IF state.context = "T"
    THEN [r |-> "ok", state |-> [state EXCEPT !.context = "None"]]
    ELSE [r |-> "panic", state |-> [state EXCEPT !.context = "None"]]

\* tool/extract.rs 57-70: the extractors of a tuple run left to right on the
\* shared call state; the first one that fails ends the extraction.
RECURSIVE tuple_try_from(_, _)
tuple_try_from(state, extractors) ==
    IF extractors = << >> THEN "ok"
    ELSE LET e == IF Head(extractors) = "Id" THEN Id_try_from(state)
                  ELSE IF Head(extractors) = "Args" THEN Args_try_from(state)
                  ELSE Context_try_from(state)
         IN  IF e.r = "ok" THEN tuple_try_from(e.state, Tail(extractors)) ELSE e.r

\* tool.rs 108-116: the future of an executor: the extractors' error (or
\* panic), or the executor's value for the args it was handed.
Outcome(args) ==
    LET r == tuple_try_from(Call(args), config.extractors)
    IN  IF r = "ok" THEN [ok |-> TRUE, panic |-> FALSE, value |-> Ret(args)]
        ELSE [ok |-> FALSE, panic |-> r = "panic", value |-> ErrorValue]

\* ToolCompletes in which the task writes its outcome into the message as
\* soon as it completes.
ToolCompletes_Mut ==
    /\ pc \in {"Streaming", "Draining"}
    /\ \E t \in running :
        /\ running' = running \ {t}
        /\ finished' = Append(finished, t)
        /\ assistant_message' =
               [assistant_message EXCEPT
                   !.parts[t.part + 1].result =
                       IF Outcome(t.args).ok THEN Outcome(t.args).value ELSE ErrorValue]
    /\ UNCHANGED <<dialect, backend, config, session, reports, request, lockOps,
                   pc, deltas, tool_deltas, obs, requests,
                   nEvents, items, completed, turnStart, announced, delivered,
                   contentFed, spawnLog, joinLog, aborted>>

\* A task of the JoinSet runs to completion, at any time after its spawn.
ToolCompletes ==
    /\ pc \in {"Streaming", "Draining"}
    /\ \E t \in running :
        /\ running' = running \ {t}
        /\ finished' = Append(finished, t)
    /\ UNCHANGED <<dialect, backend, config, session, reports, request, lockOps,
                   pc, assistant_message, deltas, tool_deltas, obs, requests,
                   nEvents, items, completed, turnStart, announced, delivered,
                   contentFed, spawnLog, joinLog, aborted>>

\* JoinResult that leaves the result of a failed execution absent.
JoinResult_Mut(outcome) == IF outcome.ok THEN outcome.value ELSE None

\* ai.rs 436-439, 699-702: Ok(result) => Some(result), Err(error) => Some("Error: ...")
JoinResult(outcome) == IF outcome.ok THEN outcome.value ELSE ErrorValue

\* WriteResult that ignores the tag and writes into the latest tool call.
WriteResult_Mut(ps, part_index, result) ==
    LET last == CHOOSE i \in 1..Len(ps) :
                    ps[i].kind = "Tool" /\ \A j \in (i + 1)..Len(ps) : ps[j].kind # "Tool"
    IN  [ps EXCEPT ![last].result = result]

\* ai.rs 440-451, 703-714: the result is written into the part tagged at spawn.
WriteResult(ps, part_index, result) ==
    [ps EXCEPT ![part_index + 1].result = result]

\* ai.rs 430-452, 693-715: one iteration of while let Some(..) = join_next().
\* A task that panicked is returned as a JoinError, on which the engine's
\* expect("tool to be executed") panics: the generator unwinds and the
\* JoinSet is dropped with the tasks it still holds.
JoinNext ==
    /\ pc = "Draining"
    /\ finished # << >>
    /\ LET t == Head(finished)
       IN  IF Outcome(t.args).panic
           THEN /\ pc' = "Panicked"
                /\ aborted' = aborted \cup {u.eid : u \in running}
                                      \cup {u.eid : u \in Range(Tail(finished))}
                /\ running' = {}
                /\ finished' = << >>
                /\ lockOps' = << >>
                /\ UNCHANGED <<assistant_message, joinLog>>
           ELSE /\ assistant_message' =
                       [assistant_message EXCEPT
                           !.parts = WriteResult(@, t.part, JoinResult(Outcome(t.args)))]
                /\ joinLog' = Append(joinLog, t)
                /\ finished' = Tail(finished)
                /\ lockOps' = Guarded(<<"mutate">>)
                /\ UNCHANGED <<pc, running, aborted>>
    /\ UNCHANGED <<dialect, backend, config, session, reports, request, deltas,
                   tool_deltas, obs, requests, nEvents, items, completed,
                   turnStart, announced, delivered, contentFed, spawnLog>>

\* DrainYield that leaves the loop when no finished task is waiting, with
\* tasks still running.
DrainYield_Mut ==
    /\ pc = "Draining"
    /\ finished = << >>
    /\ obs' = YieldOk(assistant_message, requests)
    /\ pc' = "Decide"
    /\ lockOps' = <<"yield">>
    /\ UNCHANGED <<dialect, backend, config, session, reports, request,
                   assistant_message, deltas, tool_deltas, running, finished,
                   requests, nEvents, items, completed, turnStart, announced,
                   delivered, contentFed, spawnLog, joinLog, aborted>>

\* ai.rs 454, 717: join_next() returned None; the drained message is yielded.
DrainYield ==
    /\ pc = "Draining"
    /\ JoinSetIsEmpty
    /\ obs' = YieldOk(assistant_message, requests)
    /\ pc' = "Decide"
    /\ lockOps' = <<"yield">>
    /\ UNCHANGED <<dialect, backend, config, session, reports, request,
                   assistant_message, deltas, tool_deltas, running, finished,
                   requests, nEvents, items, completed, turnStart, announced,
                   delivered, contentFed, spawnLog, joinLog, aborted>>

\* AfterDrain without the check for unresolved tool calls.
AfterDrain_Mut(ps) == "Loop"

\* ai.rs 456-466, 719-729: return if a tool call has no result, else loop.
AfterDrain(ps) == IF HasUnresolvedToolCall(ps) THEN "Done" ELSE "Loop"

Decide ==
    /\ pc = "Decide"
    /\ pc' = AfterDrain(parts)
    /\ lockOps' = Guarded(<< >>)
    /\ UNCHANGED <<dialect, backend, config, session, reports, request,
                   assistant_message, deltas, tool_deltas, running, finished,
                   obs, requests, nEvents, items, completed, turnStart,
                   announced, delivered, contentFed, spawnLog, joinLog,
                   aborted>>

\* ------------------------------------------------------- cancellation
\* The generator is suspended in co.yield_(..).await: its last step ended
\* with a yield and it has not returned.
AtYield ==
    /\ pc \in {"Loop", "Streaming", "Decide"}
    /\ lockOps # << >>
    /\ lockOps[Len(lockOps)] = "yield"

\* DropStream that detaches the tasks instead of aborting them.
DropStream_Mut ==
    /\ AtYield
    /\ pc' = "Cancelled"
    /\ UNCHANGED <<dialect, backend, config, session, reports, request, lockOps,
                   assistant_message, deltas, tool_deltas, running, finished,
                   obs, requests, nEvents, items, completed, turnStart,
                   announced, delivered, contentFed, spawnLog, joinLog,
                   aborted>>

\* ai.rs 199-206, 232-235: the consumer drops the stream after an
\* observation.  The generator's future is dropped where it is suspended,
\* and with it the backend stream and the JoinSet, which aborts every task
\* it holds; the results of completed tasks it still holds are discarded.
DropStream ==
    /\ AtYield
    /\ pc' = "Cancelled"
    /\ aborted' = aborted \cup {t.eid : t \in running} \cup {t.eid : t \in Range(finished)}
    /\ running' = {}
    /\ finished' = << >>
    /\ UNCHANGED <<dialect, backend, config, session, reports, request, lockOps,
                   assistant_message, deltas, tool_deltas, obs, requests,
                   nEvents, items, completed, turnStart, announced, delivered,
                   contentFed, spawnLog, joinLog>>

\* ------------------------------------------------------- specification
Next ==
    \/ FirstYield
    \/ IssueRequest
    \/ CreateStreamFails
    \/ OutputItemAdded
    \/ ContentPartAdded
    \/ OutputTextDelta
    \/ FunctionCallArgumentsDelta
    \/ FunctionCallArgumentsDone
    \/ ResponseCompleted
    \/ OtherEvent
    \/ ChatChunk
    \/ ChatLastChunk
    \/ ResponsesStreamEnd
    \/ ChatStreamEnd
    \/ StreamError
    \/ ToolCompletes
    \/ JoinNext
    \/ DrainYield
    \/ Decide
    \/ DropStream

Spec == Init /\ [][Next]_vars

\* The steps the generator takes by itself when the consumer polls it.
EngineStep ==
    FirstYield \/ IssueRequest \/ CreateStreamFails \/ JoinNext \/ DrainYield \/ Decide

\* stream.next() returns None or an error: the event stream is finite.
StreamEnds == ResponsesStreamEnd \/ ChatStreamEnd \/ StreamError

\* A backend that calls the executed tool add and sends text.
LiveBackend ==
    [names |-> {"add"}, argSeeds |-> {<< >>}, argTok |-> {"{"},
     textSeeds |-> {<< >>}, textTok |-> {"h"},
     usage |-> {NoUsage}, previous_response_id |-> {NoId}]

InitLive ==
    /\ backend = LiveBackend
    /\ config = DefaultConfig
    /\ session = [cursor |-> NoId, cost |-> 0]
    /\ InitEngine

\* The engine with a consumer that polls it, event streams that end and
\* tool executions that complete.
SpecLive ==
    /\ InitLive
    /\ [][Next]_vars
    /\ WF_vars(EngineStep)
    /\ WF_vars(StreamEnds)
    /\ WF_vars(ToolCompletes)

\* The part at position i of a transcript message, by its shape: a text,
\* a tool call with or without a result, an error.
PartOf(shape, i) ==
    CASE shape = "Text" -> TextPart(Rep("h", i))
      [] shape = "Resolved" ->
            [ToolPart(90 + i, "add") EXCEPT !.args = Obj(i), !.result = Ret(Obj(i))]
      [] shape = "Unresolved" -> [ToolPart(90 + i, "ask") EXCEPT !.args = Obj(i)]
      [] shape = "Error" -> ErrorPart(<<"e">>)

\* The messages of at most MaxParts parts, of every role and shape.
Transcripts ==
    UNION {{[role |-> r, parts |-> [i \in 1..n |-> PartOf(k[i], i)]] :
                r \in {"developer", "user", "assistant"},
                k \in [1..n -> {"Text", "Resolved", "Unresolved", "Error"}]} :
           n \in 0..MaxParts}

InitEncode ==
    /\ backend = LiveBackend
    /\ config \in {[DefaultConfig EXCEPT !.messages = <<m>>] : m \in Transcripts}
    /\ session = [cursor |-> NoId, cost |-> 0]
    /\ InitEngine

\* The engine over every input transcript of Transcripts.
SpecEncode == InitEncode /\ [][Next]_vars

\* A backend whose argument fragments may end inside an escape sequence.
RepairBackend ==
    [names |-> {"add"}, argSeeds |-> {<<"{">>}, argTok |-> {"{", "a", "\\"},
     textSeeds |-> {<< >>}, textTok |-> {"h"},
     usage |-> {NoUsage}, previous_response_id |-> {NoId}]

InitRepair ==
    /\ backend = RepairBackend
    /\ config = DefaultConfig
    /\ session = [cursor |-> NoId, cost |-> 0]
    /\ InitEngine

\* The engine with a backend that sends fragments of every kind.
SpecRepair == InitRepair /\ [][Next]_vars

\* A backend that calls the two executed tools of the registry.
CallingBackend ==
    [names |-> {"add", "live"}, argSeeds |-> {<< >>}, argTok |-> ArgTok,
     textSeeds |-> {<< >>}, textTok |-> {"h"},
     usage |-> {NoUsage}, previous_response_id |-> {NoId}]

\* The ways the registry's executors take their arguments: the extractor
\* tuple of the executor and the type the context was registered as.
ExecutorSetups ==
    {[extractors |-> <<"Id", "Args", "Context">>, context |-> "T"],
     [extractors |-> <<"Id", "Args", "Id">>, context |-> "T"],
     [extractors |-> <<"Args", "Context">>, context |-> "None"],
     [extractors |-> <<"Args", "Context">>, context |-> "U"]}

InitExtract ==
    /\ backend = CallingBackend
    /\ config \in {[DefaultConfig EXCEPT !.extractors = e.extractors,
                                          !.context = e.context] : e \in ExecutorSetups}
    /\ session = [cursor |-> NoId, cost |-> 0]
    /\ InitEngine

\* The engine over every executor setup of ExecutorSetups.
SpecExtract == InitExtract /\ [][Next]_vars

\* A backend that sends one tool call per turn at most and reports usage:
\* none, a report with cached tokens among the prompt tokens, and two
\* reports with more cached tokens than prompt tokens.
BillingBackend ==
    [names |-> {"add"}, argSeeds |-> {<< >>}, argTok |-> {"{"},
     textSeeds |-> {<< >>}, textTok |-> {"h"},
     usage |-> {NoUsage, SomeUsage(3, 1, 2), SomeUsage(1, 2, 1), SomeUsage(0, 3, 0)},
     previous_response_id |-> {NoId, SomeId(7)}]

\* Any model, and a session that is fresh or comes from an earlier invocation.
InitCost ==
    /\ backend = BillingBackend
    /\ config \in {[DefaultConfig EXCEPT !.model = m] : m \in Models}
    /\ session \in {[cursor |-> NoId, cost |-> 0], [cursor |-> SomeId(5), cost |-> 5]}
    /\ InitEngine

\* The engine over every model, with a backend that reports usage.
SpecCost == InitCost /\ [][Next]_vars

\* ================================================================ claims
\* Executions spawned in turn n.
SpawnedInTurn(log, n) == {i \in 1..Len(log) : log[i].turn = n}

\* The eids join_next has returned.
Joined == {joinLog[i].eid : i \in 1..Len(joinLog)}

\* C1: after a turn's stream ends without error the engine terminates if and
\* only if no execution was spawned in that turn, or, once every spawned
\* execution has been joined, some tool call has no result; otherwise it goes
\* back to the head of the loop, whose only step issues one request.  Hence a
\* request for turn n+1 is issued only if turn n spawned an execution.  (The
\* caller may drop the stream at any observation instead.)
C1_TerminationRule ==
    [][ /\ (pc = "Streaming" /\ pc' \notin {"Streaming", "Failed", "Cancelled"}) =>
            /\ pc' \in {"Done", "Draining"}
            /\ pc' = "Done" <=> SpawnedInTurn(spawnLog', requests) = {}
        /\ pc' = "Decide" =>
            \A i \in SpawnedInTurn(spawnLog', requests) : spawnLog'[i].eid \in Joined'
        /\ (pc = "Decide" /\ pc' # "Cancelled") =>
            /\ pc' \in {"Done", "Loop"}
            /\ pc' = "Done" <=> HasUnresolvedToolCall(parts)
        /\ pc' = "Done" => pc \in {"Streaming", "Decide"}
        /\ pc' = "Loop" => pc \in {"Idle", "Decide"}
        /\ (pc = "Loop" /\ pc' # "Cancelled") => requests' = requests + 1
        /\ requests' # requests =>
            /\ requests' = requests + 1
            /\ pc = "Loop"
            /\ requests >= 1 => SpawnedInTurn(spawnLog, requests) # {}
      ]_vars

\* C1 witness: the engine looped once (turn 1 spawned an execution and every
\* call was resolved) and terminated after a second turn that spawned none.
C1_Witness ==
    /\ pc = "Done"
    /\ requests = 2
    /\ SpawnedInTurn(spawnLog, 1) # {}
    /\ SpawnedInTurn(spawnLog, 2) = {}

\* C2: the first observation is Ok, refers to a message of role assistant
\* with zero parts, and is emitted before any request is issued; it has been
\* received also when the first request or stream fails.
C2_FirstObservation ==
    /\ requests > 0 => obs # << >>
    /\ pc \in {"Done", "Failed"} => obs # << >>
    /\ obs # << >> =>
        /\ obs[1].ok
        /\ obs[1].role = "assistant"
        /\ obs[1].nparts = 0
        /\ obs[1].nreq = 0

\* C2 witness: the first request failed, and the consumer has the empty
\* message followed by the error.
C2_Witness ==
    /\ pc = "Failed"
    /\ requests = 1
    /\ nEvents = 0
    /\ Len(obs) = 2
    /\ obs[1].ok /\ ~obs[2].ok

\* C3: the observation sequence holds at most one Err item, which is its
\* last item; after it the engine takes no step (no observation, no request,
\* no mutation of the message).
C3_ErrorTerminates ==
    /\ [](\A i \in 1..Len(obs) : ~obs[i].ok => (i = Len(obs) /\ pc = "Failed"))
    /\ [][pc # "Failed"]_vars

\* C3 witness: a transport error in mid-stream, after the message had grown.
C3_Witness ==
    /\ pc = "Failed"
    /\ nEvents >= 2
    /\ Len(parts) >= 1
    /\ ~obs[Len(obs)].ok

\* C4: every step leaves each text part a text part whose text extends the
\* text it had (prefix order), in both dialects and across turns.
C4_MonotoneText ==
    [][ \A i \in 1..Len(parts) :
            parts[i].kind = "Text" =>
                /\ i <= Len(assistant_message'.parts)
                /\ assistant_message'.parts[i].kind = "Text"
                /\ IsPrefix(parts[i].text, assistant_message'.parts[i].text)
      ]_vars

\* C4 witness: in its second turn the Chat engine has extended the text part
\* that ended the first turn's message.
C4_Witness ==
    /\ dialect = "chat"
    /\ pc = "Streaming"
    /\ requests = 2
    /\ nEvents = 3
    /\ turnStart >= 2
    /\ Len(parts) = turnStart
    /\ parts[turnStart].kind = "Text"
    /\ Len(parts[turnStart].text) = 2
    /\ obs[Len(obs)].nreq = 2

\* The tasks the JoinSet holds.
Held == running \cup Range(finished)

\* C5: the part vector is append-only: every step keeps each existing part
\* at its index with its kind (and, for a tool part, its id and name).  Hence
\* the part_index of every held execution designates the tool call it was
\* spawned for, and a join writes the result into that part and no other.
C5_PartIdentity ==
    /\ [](\A t \in Held :
            /\ t.part + 1 \in 1..Len(parts)
            /\ parts[t.part + 1].kind = "Tool"
            /\ parts[t.part + 1].id = t.id
            /\ parts[t.part + 1].name = t.name)
    /\ [][ /\ Len(assistant_message'.parts) >= Len(parts)
           /\ \A i \in 1..Len(parts) :
                /\ assistant_message'.parts[i].kind = parts[i].kind
                /\ parts[i].kind = "Tool" =>
                    /\ assistant_message'.parts[i].id = parts[i].id
                    /\ assistant_message'.parts[i].name = parts[i].name
           /\ joinLog' # joinLog =>
                LET t == joinLog'[Len(joinLog')]
                IN  /\ Len(assistant_message'.parts) = Len(parts)
                    /\ assistant_message'.parts[t.part + 1] =
                         [parts[t.part + 1] EXCEPT !.result = JoinResult(Outcome(t.args))]
                    /\ \A i \in 1..Len(parts) :
                         i # t.part + 1 => assistant_message'.parts[i] = parts[i]
         ]_vars

\* C5 witness: an execution tagged with a part that is no longer the last
\* one (parts were appended after the call) has been joined and its result
\* stands in the tagged part.
C5_Witness ==
    /\ joinLog # << >>
    /\ Len(parts) > joinLog[1].part + 1
    /\ parts[joinLog[1].part + 1].kind = "Tool"
    /\ parts[joinLog[1].part + 1].id = joinLog[1].id
    /\ parts[joinLog[1].part + 1].result # None

\* What identifies a part in the order of announcements.
Announcement(part) ==
    [kind |-> part.kind, id |-> IF part.kind = "Tool" THEN part.id ELSE 0]

\* C6: the parts appended in a turn stand in the order in which the backend
\* announced them, however the deltas of different parts interleave.
C6_AnnouncementOrder ==
    /\ Len(parts) = turnStart + Len(announced)
    /\ \A i \in 1..Len(announced) :
        Announcement(parts[turnStart + i]) = announced[i]

\* C6 witness: a tool call and a text part were announced, in this order,
\* and a delta for the first one arrived after the second was announced.
C6_Witness ==
    /\ Len(announced) = 2
    /\ announced[1].kind = "Tool"
    /\ announced[2].kind = "Text"
    /\ parts[turnStart + 1].args # Null
    /\ obs[Len(obs)].nparts = turnStart + 2
    /\ Len(spawnLog) = 0
    /\ nEvents = 3
    /\ pc = "Streaming"

\* The texts of the Text parts, concatenated in part order.
RECURSIVE AllText(_)
AllText(ps) ==
    IF ps = << >> THEN << >>
    ELSE (IF Head(ps).kind = "Text" THEN Head(ps).text ELSE << >>) \o AllText(Tail(ps))

\* The engine is past the end of the current turn's event stream.
StreamEnded == requests >= 1 /\ pc \in {"Draining", "Decide", "Loop", "Done"}

\* C7: at the end of a turn's event stream the argument string accumulated
\* for each call is the concatenation, in arrival order, of every fragment
\* delivered for it, the announcing event's or chunk's included, and each
\* text part holds its seed followed by its deltas, in both dialects.
C7_NoFragmentLost ==
    StreamEnded =>
        /\ \A key \in DOMAIN deltas :
            /\ deltas[key].str = delivered[key]
            /\ parts[deltas[key].part + 1].kind = "Text" =>
                parts[deltas[key].part + 1].text = delivered[key]
        /\ \A index \in DOMAIN tool_deltas :
            tool_deltas[index].str = delivered[index]
        /\ dialect = "chat" => AllText(parts) = contentFed

\* The last execution spawned for a part in the current turn.
LastSpawn(part_index) ==
    LET mine == {i \in SpawnedInTurn(spawnLog, requests) : spawnLog[i].part = part_index}
    IN  spawnLog[CHOOSE i \in mine : \A j \in mine : j <= i]

\* C8: after draining, the result of a tool call that was executed in the
\* turn is the result of the last invocation spawned for it, whatever the
\* order in which the executions completed.
C8_LastInvocationWins ==
    pc \in {"Decide", "Loop", "Done"} =>
        \A i \in SpawnedInTurn(spawnLog, requests) :
            parts[spawnLog[i].part + 1].result =
                JoinResult(Outcome(LastSpawn(spawnLog[i].part).args))

\* C9: in every terminal state, on the normal and on the error exit, every
\* execution that was spawned has been joined (none was dropped with the
\* JoinSet while running or with its completion unconsumed).
C9_AllJoinedAtExit ==
    pc \in {"Done", "Failed", "Loop"} =>
        /\ aborted = {}
        /\ \A i \in 1..Len(spawnLog) : spawnLog[i].eid \in Joined

\* The event that finalizes the arguments of a call, per dialect.
FinalizedAt == IF dialect = "responses" THEN "done" ELSE "sweep"

\* The executions spawned for the tool part at part_index.
SpawnsOf(part_index) == {i \in 1..Len(spawnLog) : spawnLog[i].part = part_index}

\* C10: a non-streamable tool with an executor is executed at most once per
\* call and never on an argument delta: in the Responses dialect exactly on
\* the call's FunctionCallArgumentsDone, in the Chat dialect exactly once in
\* the sweep that follows the end of the stream (unless the caller has
\* dropped the stream before).
C10_NonStreamableOnce ==
    /\ \A i \in 1..Len(spawnLog) :
        (tools_get(spawnLog[i].name) /\ ~is_streamable(spawnLog[i].name)) =>
            /\ spawnLog[i].at = FinalizedAt
            /\ Cardinality(SpawnsOf(spawnLog[i].part)) = 1
    /\ \A p \in 1..Len(parts) :
        (/\ parts[p].kind = "Tool"
         /\ tools_get(parts[p].name)
         /\ ~is_streamable(parts[p].name)
         /\ execute(parts[p].name)
         /\ pc # "Cancelled") =>
            /\ (dialect = "responses" /\ p > turnStart) =>
                \A o \in 0..(Len(items) - 1) :
                    (<<o, 0>> \in DOMAIN deltas /\ deltas[<<o, 0>>].part = p - 1) =>
                        (items[o + 1].done <=> Cardinality(SpawnsOf(p - 1)) = 1)
            /\ dialect = "chat" =>
                ((p <= turnStart \/ StreamEnded) <=> Cardinality(SpawnsOf(p - 1)) = 1)

\* C10 witness: a non-streamable tool received an argument delta, which
\* spawned nothing, and was executed when its arguments were done.
C10_Witness ==
    /\ dialect = "responses"
    /\ Len(spawnLog) = 1
    /\ spawnLog[1].name = "add"
    /\ spawnLog[1].at = "done"
    /\ spawnLog[1].args # Null
    /\ nEvents = 3

\* The tool part at part_index belongs to a streamable tool with an executor.
LiveCall(ps, part_index) ==
    /\ part_index + 1 \in 1..Len(ps)
    /\ ps[part_index + 1].kind = "Tool"
    /\ SpawnsOnDelta(ps[part_index + 1].name)

\* The part a key of the turn's demultiplexing map designates.
KeyPart(key) ==
    IF dialect = "responses" THEN deltas[key].part ELSE tool_deltas[key].part

\* C11: for a streamable tool with an executor, every argument delta that
\* arrives for its (already announced) call spawns exactly one execution,
\* whose id and args are the tool part's id and args right after the delta
\* was applied (the repaired parse of the string accumulated so far); the
\* FunctionCallArgumentsDone event and the Chat sweep spawn nothing for a
\* streamable tool.
C11_StreamableSpawnPerDelta ==
    [][ /\ \A key \in DOMAIN delivered \cap DOMAIN delivered' :
            (/\ requests' = requests
             /\ Len(delivered'[key]) > Len(delivered[key])
             /\ LiveCall(parts, KeyPart(key))) =>
                LET p == KeyPart(key)
                    t == spawnLog'[Len(spawnLog')]
                    str == IF dialect = "responses" THEN deltas'[key].str
                           ELSE tool_deltas'[key].str
                IN  /\ Len(spawnLog') = Len(spawnLog) + 1
                    /\ t.part = p
                    /\ t.at = "delta"
                    /\ t.id = assistant_message'.parts[p + 1].id
                    /\ t.args = assistant_message'.parts[p + 1].args
                    /\ t.args = parse_incomplete_json(str)
        /\ \A i \in (Len(spawnLog) + 1)..Len(spawnLog') :
            is_streamable(spawnLog'[i].name) => spawnLog'[i].at = "delta"
      ]_vars

\* C11 witness: two argument deltas of one call to the streamable tool
\* spawned two executions, on two different snapshots of the arguments, and
\* the end of the stream spawned no third one.
C11_Witness ==
    /\ StreamEnded
    /\ Len(spawnLog) = 2
    /\ spawnLog[1].name = "live"
    /\ spawnLog[1].part = spawnLog[2].part
    /\ spawnLog[1].args = Obj(0)
    /\ spawnLog[2].args = Obj(1)

\* The tool parts that call a name the registry does not hold.
UnknownCalls(ps) ==
    {p \in 1..Len(ps) : ps[p].kind = "Tool" /\ ~tools_get(ps[p].name)}

\* The arguments of the call in part p are final: its Done event has been
\* handled (Responses), or the stream it arrived on has been swept (Chat).
Finalized(p) ==
    \/ p <= turnStart
    \/ dialect = "chat" /\ StreamEnded
    \/ /\ dialect = "responses"
       /\ \E o \in 0..(Len(items) - 1) :
            /\ <<o, 0>> \in DOMAIN deltas
            /\ deltas[<<o, 0>>].part = p - 1
            /\ items[o + 1].done

\* C12: a call to a name that is in no registry spawns no execution; its
\* result is absent until its arguments are final (FunctionCallArgumentsDone
\* in Responses, the sweep in Chat) and is "No such tool: <name>" from then
\* on; the step that writes it emits no observation, hence no error; and the
\* engine terminates at the end of the stream if the turn spawned nothing
\* (a stream the caller has dropped is not looked at).
C12_UnknownTool ==
    /\ [](/\ \A i \in 1..Len(spawnLog) : tools_get(spawnLog[i].name)
          /\ \A p \in UnknownCalls(parts) :
                IF Finalized(p)
                THEN /\ parts[p].result.kind = "NoSuchTool"
                     /\ parts[p].result.name = parts[p].name
                ELSE pc # "Cancelled" => parts[p].result = None)
    /\ [][ /\ (\E p \in UnknownCalls(parts) :
                 assistant_message'.parts[p].result # parts[p].result) =>
                /\ obs' = obs
                /\ pc' # "Failed"
           /\ (/\ pc = "Streaming"
               /\ pc' \notin {"Streaming", "Failed", "Cancelled"}
               /\ UnknownCalls(parts) # {}
               /\ SpawnedInTurn(spawnLog', requests) = {}) => pc' = "Done"
         ]_vars

\* C12 witness: the engine has terminated normally on a turn whose only
\* call named an unknown tool; the call carries the message as its result,
\* nothing was executed and every observation is Ok.
C12_Witness ==
    /\ pc = "Done"
    /\ spawnLog = << >>
    /\ UnknownCalls(parts) # {}
    /\ \A p \in UnknownCalls(parts) :
        parts[p].result = [kind |-> "NoSuchTool", v |-> Null, name |-> "nope"]
    /\ \A i \in 1..Len(obs) : obs[i].ok

\* The tool parts that call a registered tool without an executor.
ClientCalls(ps) ==
    {p \in 1..Len(ps) :
        ps[p].kind = "Tool" /\ tools_get(ps[p].name) /\ ~execute(ps[p].name)}

\* C13: a call to a registered tool that has no executor never spawns an
\* execution and never gets a result from the engine, and no request is
\* issued once the message holds such a call: the engine is never back at
\* the head of the loop with one, so every such call belongs to the turn
\* the engine stops in, whether or not other calls of the turn were executed.
C13_ClientTool ==
    /\ \A i \in 1..Len(spawnLog) :
        tools_get(spawnLog[i].name) /\ execute(spawnLog[i].name)
    /\ \A p \in ClientCalls(parts) : parts[p].result = None /\ p > turnStart
    /\ pc = "Loop" => ClientCalls(parts) = {}

\* C13 witness: a turn called an executed tool and a client tool; the
\* execution was joined and its result written, the client call has no
\* result, and the engine has terminated after its single request.
C13_Witness ==
    /\ pc = "Done"
    /\ requests = 1
    /\ Len(joinLog) = 1
    /\ parts[joinLog[1].part + 1].result.kind = "Ret"
    /\ ClientCalls(parts) # {}

\* C14: when the engine has terminated without an error observation, every
\* tool call whose result is absent belongs to a client tool: every call to
\* a registered tool with an executor, streamable or not, has a result.
C14_OnlyClientCallsUnresolved ==
    pc = "Done" =>
        \A p \in 1..Len(parts) :
            (parts[p].kind = "Tool" /\ parts[p].result = None) =>
                p \in ClientCalls(parts)

\* C15: when join_next returns an execution whose future resolved to an
\* error, the engine writes "Error: <message>" into the result of the part
\* tagged at spawn, emits no observation in that step (hence no error
\* observation) and goes on draining; the error counts as a result, so the
\* decision after draining loops when no tool call is left without one
\* (unless the caller drops the stream there).
C15_FailureAbsorbed ==
    [][ /\ joinLog' # joinLog =>
            LET t == joinLog'[Len(joinLog')]
            IN  ~Deserializes(t.args) =>
                    /\ assistant_message'.parts[t.part + 1].result =
                           [kind |-> "Error", v |-> Null, name |-> ""]
                    /\ obs' = obs
                    /\ pc' = "Draining"
        /\ (/\ pc = "Decide"
            /\ pc' # "Cancelled"
            /\ \A p \in 1..Len(parts) :
                parts[p].kind = "Tool" => parts[p].result # None) => pc' = "Loop"
      ]_vars

\* C15 witness: the only execution of the first turn failed; its error
\* stands as the call's result, every observation is Ok, and the engine has
\* issued its second request.
C15_Witness ==
    /\ requests = 2
    /\ pc = "Streaming"
    /\ Len(joinLog) = 1
    /\ ~Deserializes(joinLog[1].args)
    /\ parts[joinLog[1].part + 1].result.kind = "Error"
    /\ \A i \in 1..Len(obs) : obs[i].ok

\* The step appends one Ok observation.
EmitsOk == Len(obs') = Len(obs) + 1 /\ obs'[Len(obs')].ok

\* C17: whenever the handling of a backend event changes the assistant
\* message (a new part, text growth, a change of a tool part's args, a
\* result write), an Ok observation is emitted after the change and before
\* the next event is consumed or the sequence ends normally; an Ok
\* observation also follows the result writes of the draining phase.
C17_ObservedMutations ==
    [][ /\ (nEvents' = nEvents + 1 /\ assistant_message' # assistant_message) => EmitsOk
        /\ (pc = "Streaming" /\ pc' = "Done" /\ assistant_message' # assistant_message) =>
            EmitsOk
        /\ (pc = "Draining" /\ pc' # "Draining") => EmitsOk
      ]_vars

\* join_next returns the execution at the head of the completion order.
JoinStep == pc = "Draining" /\ finished # << >> /\ Len(finished') < Len(finished)

\* The executor's extractors cannot all be satisfied, whatever the args: it
\* takes the id twice, or a context that was not registered as T.
Misconfigured ==
    \/ config.context # "T" /\ "Context" \in Range(config.extractors)
    \/ Cardinality({i \in 1..Len(config.extractors) : config.extractors[i] = "Id"}) > 1

\* The step records "Error: <message>" for the joined execution and goes on
\* draining, without an observation.
Absorbed(t) ==
    /\ assistant_message'.parts[t.part + 1].result =
           [kind |-> "Error", v |-> Null, name |-> ""]
    /\ obs' = obs
    /\ pc' = "Draining"

\* C16 (as claimed): whenever the extractors of a joined execution could not
\* be satisfied (Args<T> does not deserialize, the id was already taken, the
\* context is not registered or not registered as T), the engine records
\* "Error: <message>" as the call's result and neither aborts nor emits an
\* error observation.
C16_ExtractorFailureAbsorbed ==
    /\ [](pc # "Panicked")
    /\ [][JoinStep =>
            LET t == Head(finished)
            IN  (~Deserializes(t.args) \/ Misconfigured) => Absorbed(t)]_vars

\* C16 (amended): only the failure of Args<T> to deserialize is an error
\* value, which the engine records as "Error: <message>" without aborting
\* or emitting an observation.  When the args deserialize but the id was
\* already taken or the context is not registered as T, the extractor
\* panics; the engine aborts on joining that execution, writing no result
\* and emitting no observation.  The engine aborts in no other way.
C16_OnlyArgsFailureAbsorbed ==
    /\ [][JoinStep =>
            LET t == Head(finished)
            IN  IF ~Deserializes(t.args) THEN Absorbed(t)
                ELSE IF Misconfigured
                THEN /\ pc' = "Panicked"
                     /\ obs' = obs
                     /\ assistant_message' = assistant_message
                ELSE /\ assistant_message'.parts[t.part + 1].result.kind = "Ret"
                     /\ pc' = "Draining"]_vars
    /\ [][pc' = "Panicked" => JoinStep]_vars

\* C16 witness: an executor that takes the id twice was run on two
\* snapshots of a call's arguments; the one that did not deserialize was
\* recorded as an error, the one that did made the engine abort.
C16_Witness ==
    /\ pc = "Panicked"
    /\ config.extractors = <<"Id", "Args", "Id">>
    /\ Len(joinLog) = 1
    /\ parts[joinLog[1].part + 1].result.kind = "Error"
    /\ \A i \in 1..Len(obs) : obs[i].ok

\* The cost of one reported usage at the configured model's rates.
TurnCost(u) ==
    IF ~u.some THEN 0
    ELSE (IF u.prompt >= u.cached THEN u.prompt - u.cached ELSE 0)
            * cost_per_input_token(config.model)
         + u.cached * cost_per_cached_input_token(config.model)
         + u.output * cost_per_output_token(config.model)

\* The sum of the costs of the usage reports received.
RECURSIVE Billed(_)
Billed(log) ==
    IF log = << >> THEN 0 ELSE TurnCost(Head(log).usage) + Billed(Tail(log))

\* C20: session.cost is its initial value plus the sum, over the turns whose
\* completion event was received, of input_tokens x rate_in + cached_tokens
\* x rate_cached + output_tokens x rate_out at the configured model's rates
\* (session.cost minus that sum never changes, and is the initial cost when
\* nothing has been reported); a turn has at most one report, so its cost is
\* added once, and a report without usage adds nothing.
C20_CostAdditivity ==
    /\ [](/\ \A i, j \in 1..Len(reports) : reports[i].turn = reports[j].turn => i = j
          /\ reports = << >> => Billed(reports) = 0)
    /\ [][session'.cost - Billed(reports') = session.cost - Billed(reports)]_vars

\* C20 witness: two turns were completed with two different usage reports
\* on a session that already carried a cost, under the o4-mini rates.
C20_Witness ==
    /\ config.model = "o4-mini"
    /\ Len(reports) = 2
    /\ reports[1].usage = SomeUsage(3, 1, 2)
    /\ reports[2].usage = SomeUsage(1, 2, 1)
    /\ session.cost = 5 + (2 * 1100 + 1 * 275 + 2 * 4400) + (2 * 275 + 1 * 4400)

\* The request input carries the tool call of a part, and after it the
\* call's result if it has one, in the form of the dialect.
CarriesCall(input, tool) ==
    IF dialect = "responses"
    THEN \E i \in 1..Len(input) :
            /\ input[i].type = "function_call"
            /\ input[i].call_id = tool.id
            /\ input[i].name = tool.name
            /\ input[i].text = to_string(tool.args)
            /\ tool.result # None =>
                \E j \in (i + 1)..Len(input) :
                    /\ input[j].type = "function_call_output"
                    /\ input[j].call_id = tool.id
                    /\ input[j].text = result_to_string(tool.result)
    ELSE \E i \in 1..Len(input) :
            /\ input[i].role = "assistant"
            /\ \E k \in 1..Len(input[i].tool_calls) :
                input[i].tool_calls[k] =
                    [id |-> tool.id, name |-> tool.name, arguments |-> to_string(tool.args)]
            /\ tool.result # None =>
                \E j \in (i + 1)..Len(input) :
                    /\ input[j].role = "tool"
                    /\ input[j].call_id = tool.id
                    /\ input[j].text = result_to_string(tool.result)

\* The request input carries the text of a text part as an assistant message.
CarriesText(input, part) ==
    \E i \in 1..Len(input) :
        input[i].role = "assistant" /\ input[i].text = part.text

\* C19: every request carries the encoded input transcript, followed by the
\* encoding of the assistant message as it stands when the request is built
\* if and only if that message has a part; the request of a re-loop thus
\* carries every text part and every tool call accumulated so far, each call
\* with its result.
C19_RequestComposition ==
    [][requests' = requests + 1 =>
        /\ IsPrefix(thread, request'.input)
        /\ request'.input = thread <=> parts = << >>
        /\ parts # << >> => request'.input = thread \o try_from(assistant_message).items
        /\ \A p \in 1..Len(parts) :
            IF parts[p].kind = "Text" THEN CarriesText(request'.input, parts[p])
            ELSE /\ CarriesCall(request'.input, parts[p])
                 /\ parts[p].result # None
      ]_vars

\* C19 witness: the second request carries a text part and two resolved
\* tool calls of the first turn behind the input transcript.
C19_Witness ==
    /\ requests = 2
    /\ pc = "Streaming"
    /\ Len(parts) = 3
    /\ Len(joinLog) = 2
    /\ Len(request.input) > Len(thread) + 2
    /\ \E p \in 1..3 : parts[p].kind = "Text"

\* The engine holds the mutex after the operations ops, starting without it.
RECURSIVE HeldAfter(_)
HeldAfter(ops) ==
    IF ops = << >> THEN FALSE
    ELSE IF ops[Len(ops)] = "lock" THEN TRUE
    ELSE IF ops[Len(ops)] = "unlock" THEN FALSE
    ELSE HeldAfter(SubSeq(ops, 1, Len(ops) - 1))

\* C18: the engine mutates the assistant message only while it holds the
\* message's mutex, holds it at no point where it yields an observation, and
\* never locks it while holding it; every step that changes the message
\* does so under the lock and every step that emits an observation yields
\* without it.
C18_LockDiscipline ==
    /\ [](\A i \in 1..Len(lockOps) :
            LET held == HeldAfter(SubSeq(lockOps, 1, i - 1))
            IN  /\ lockOps[i] = "mutate" => held
                /\ lockOps[i] = "yield" => ~held
                /\ lockOps[i] = "lock" => ~held
                /\ lockOps[i] = "unlock" => held)
    /\ [][ /\ assistant_message' # assistant_message =>
                \E i \in 1..Len(lockOps') : lockOps'[i] = "mutate"
           /\ obs' # obs => lockOps'[Len(lockOps')] = "yield"
         ]_vars

\* C18 witness: a Chat chunk that started a text part and announced a tool
\* call took the mutex four times, mutated the message under the second and
\* the fourth guard, and yielded after the last guard was dropped.
C18_Witness ==
    /\ dialect = "chat"
    /\ Len(lockOps) = 11
    /\ lockOps[Len(lockOps)] = "yield"
    /\ Cardinality({i \in 1..Len(lockOps) : lockOps[i] = "mutate"}) = 2
    /\ Len(obs) >= 2

\* The larger of two numbers.
Max(a, b) == IF a >= b THEN a ELSE b

\* The usage reports received so far that carry a usage.
Reported == {reports[i].usage : i \in {i \in 1..Len(reports) : reports[i].usage.some}}

\* C21: in both dialects the input_tokens of the Usage built from a report
\* are max(prompt_tokens - cached_tokens, 0): they are 0, and never
\* negative, when the report has more cached tokens than prompt tokens; and
\* no step lowers session.cost.
C21_SaturatingInput ==
    /\ [](\A u \in Reported :
            /\ Usage(u).input_tokens = Max(u.prompt - u.cached, 0)
            /\ Usage(u).input_tokens >= 0
            /\ u.cached > u.prompt => Usage(u).input_tokens = 0)
    /\ [][session'.cost >= session.cost]_vars

\* C21 witness: the Chat backend reported three cached tokens and no prompt
\* token; the turn was billed at the cached rate only.
C21_Witness ==
    /\ dialect = "chat"
    /\ config.model = "gpt-4.1"
    /\ Len(reports) = 1
    /\ reports[1].usage = SomeUsage(0, 3, 0)
    /\ session.cost \in {3 * 500, 5 + 3 * 500}

\* C22 as stated: the raw prompt token count of every report equals
\* cached_input_tokens + input_tokens of the Usage built from it.
C22_PromptIsCachedPlusInput ==
    \A u \in Reported :
        u.prompt = Usage(u).cached_input_tokens + Usage(u).input_tokens

\* C22, amended: cached_input_tokens + input_tokens of the Usage built from
\* a report is the larger of its prompt and cached token counts; it is the
\* raw prompt token count exactly when the report has no more cached tokens
\* than prompt tokens.
C22_PromptOrCached ==
    \A u \in Reported :
        LET sum == Usage(u).cached_input_tokens + Usage(u).input_tokens
        IN  /\ sum = Max(u.prompt, u.cached)
            /\ sum = u.prompt <=> u.cached <= u.prompt
            /\ Usage(u).cached_input_tokens = u.cached
            /\ Usage(u).output_tokens = u.output

\* C22 witness: one invocation received a report whose cached tokens are
\* among its prompt tokens and a report with more cached than prompt tokens.
C22_Witness ==
    /\ Len(reports) = 2
    /\ reports[1].usage = SomeUsage(1, 2, 1)
    /\ reports[2].usage = SomeUsage(3, 1, 2)
    /\ session.cost > 0

\* C23: the session changes neither when a turn starts nor during a turn
\* whose completion event has not been received, so that at an error before
\* the completion event session.cost and session.cursor are what they were
\* when the turn started (the cost of earlier turns included); the step
\* that emits the error leaves session and message alone, and the observer
\* has by then received the message with every part it has, in Ok
\* observations only.
C23_FailureKeepsSession ==
    [][ /\ requests' # requests => session' = session
        /\ (requests' = requests /\ ~completed') => session' = session
        /\ (pc' = "Failed" /\ pc # "Failed") =>
            /\ ~completed'
            /\ session' = session
            /\ assistant_message' = assistant_message
            /\ obs # << >>
            /\ \A i \in 1..Len(obs) : obs[i].ok
            /\ obs[Len(obs)].nparts = Len(parts)
            /\ Len(obs') = Len(obs) + 1
            /\ ~obs'[Len(obs')].ok
      ]_vars

\* C23 witness: the second turn of a Chat invocation failed in mid-stream
\* after it had added a part; the session holds the cost it came with plus
\* the cost of the first turn, and its cursor.
C23_Witness ==
    /\ pc = "Failed"
    /\ requests = 2
    /\ Len(parts) > turnStart
    /\ Len(reports) = 1
    /\ reports[1].usage = SomeUsage(3, 1, 2)
    /\ session.cost = 5 + TurnCost(SomeUsage(3, 1, 2))
    /\ session.cursor = SomeId(5)
    /\ ~obs[Len(obs)].ok

\* C24: a step changes the session only if it receives a completion event;
\* in the Responses dialect the cursor is then the event's
\* previous_response_id if it has one and is unchanged otherwise; in the
\* Chat dialect no step changes the cursor.
C24_SessionFrame ==
    [][ /\ session' # session => Len(reports') = Len(reports) + 1
        /\ Len(reports') = Len(reports) + 1 =>
            LET event == reports'[Len(reports')]
            IN  /\ ~completed /\ completed'
                /\ session'.cursor =
                       IF dialect = "responses" /\ event.previous_response_id.some
                       THEN event.previous_response_id
                       ELSE session.cursor
                /\ ~event.usage.some => session'.cost = session.cost
        /\ dialect = "chat" => session'.cursor = session.cursor
      ]_vars

\* C24 witness: a session that came with a cursor has kept it over a
\* ResponseCompleted event without previous_response_id, which added cost.
C24_Witness ==
    /\ dialect = "responses"
    /\ Len(reports) = 1
    /\ ~reports[1].previous_response_id.some
    /\ reports[1].usage.some
    /\ session.cursor = SomeId(5)
    /\ session.cost > 5

\* The executions the JoinSet holds: running, or completed and not joined.
InFlight == {t.eid : t \in running} \cup {t.eid : t \in Range(finished)}

\* C25: the consumer can drop the stream only where the engine is
\* suspended in a yield; the drop issues no request, leaves the session,
\* the assistant message and the observations as they were at that
\* observation, and aborts every execution in flight; after it the engine
\* takes no step, so no request follows, the session keeps its values and
\* no result is written.
C25_Cancellation ==
    /\ [](pc = "Cancelled" =>
            /\ InFlight = {}
            /\ \A i \in 1..Len(spawnLog) : spawnLog[i].eid \in Joined \cup aborted)
    /\ [][pc # "Cancelled"]_vars
    /\ [][pc' = "Cancelled" =>
            /\ obs # << >>
            /\ obs' = obs
            /\ requests' = requests
            /\ request' = request
            /\ session' = session
            /\ assistant_message' = assistant_message
            /\ joinLog' = joinLog
            /\ aborted' = aborted \cup InFlight]_vars

\* C25 witness: the consumer dropped the stream in the first turn while
\* one execution was running and another had completed without being
\* joined; both were aborted and the call has no result.
C25_Witness ==
    /\ pc = "Cancelled"
    /\ requests = 1
    /\ Cardinality(aborted) = 2
    /\ joinLog = << >>
    /\ \E p \in 1..Len(parts) : parts[p].kind = "Tool" /\ parts[p].result = None

\* The generator has returned or unwound, or the consumer has dropped it.
Terminal == pc \in {"Done", "Failed", "Panicked", "Cancelled"}

Carriers(enc, id) ==
    {j \in 1..Len(enc) :
        /\ enc[j].role = "assistant"
        /\ \E k \in 1..Len(enc[j].tool_calls) : enc[j].tool_calls[k].id = id}

\* The tool-role messages of a Chat encoding that answer a call.
ResultMessages(enc, id) ==
    {j \in 1..Len(enc) : enc[j].role = "tool" /\ enc[j].call_id = id}

\* The positions of a call in the tool_calls of a message.
CallSlots(message, id) ==
    {k \in 1..Len(message.tool_calls) : message.tool_calls[k].id = id}

\* The tool parts of a message, and those that have a result.
ToolParts(ps) == {p \in 1..Len(ps) : ps[p].kind = "Tool"}
ResolvedParts(ps) == {p \in ToolParts(ps) : ps[p].result # None}

\* enc, the Chat encoding of the parts ps of an assistant message, places
\* the tool calls and their results as the Chat dialect requires.
ChatEncodingOK(ps, enc) ==
    /\ \A p \in ToolParts(ps) :
        /\ Cardinality(Carriers(enc, ps[p].id)) = 1
        /\ \A c \in Carriers(enc, ps[p].id) :
            /\ Cardinality(CallSlots(enc[c], ps[p].id)) = 1
            /\ \A k \in CallSlots(enc[c], ps[p].id) :
                enc[c].tool_calls[k] = ToolCall_into_call(ps[p])
    /\ \A p \in ToolParts(ps) :
        (p + 1) \in ToolParts(ps) =>
            \E c \in Carriers(enc, ps[p].id) \cap Carriers(enc, ps[p + 1].id) :
                \E k \in CallSlots(enc[c], ps[p].id) :
                    (k + 1) \in CallSlots(enc[c], ps[p + 1].id)
    /\ \A p \in ToolParts(ps) :
        IF p \in ResolvedParts(ps)
        THEN /\ Cardinality(ResultMessages(enc, ps[p].id)) = 1
             /\ \A j \in ResultMessages(enc, ps[p].id) :
                 /\ enc[j].text = result_to_string(ps[p].result)
                 /\ \A c \in Carriers(enc, ps[p].id) :
                     /\ c < j
                     /\ \A m \in (c + 1)..(j - 1) : enc[m].role = "tool"
        ELSE ResultMessages(enc, ps[p].id) = {}
    /\ \A p, q \in ResolvedParts(ps) :
        p < q =>
            \A i \in ResultMessages(enc, ps[p].id), j \in ResultMessages(enc, ps[q].id) :
                i < j
    /\ \A j \in 1..Len(enc) :
        enc[j].role = "tool" =>
            \E p \in ResolvedParts(ps) : j \in ResultMessages(enc, ps[p].id)

\* The part of a request input behind the encoded input transcript.
Behind(input) == SubSeq(input, Len(thread) + 1, Len(input))

\* C27: in the Chat encoding of an assistant message, of the input
\* transcript and of the message the engine sends back with a request, each
\* tool call is carried once by one assistant message; tool parts with no
\* other part between them are carried by the same assistant message, in
\* part order; each result is one tool-role message that comes after the
\* message that carries its call with only tool-role messages in between
\* (so no text message separates a call from its result), a call without a
\* result has no tool-role message, and the results keep the order of their
\* calls.
C27_ChatCoalescing ==
    [][/\ (dialect = "chat" /\ messages[1].role = "assistant" /\ pc # "Panicked") =>
            \A enc \in {thread} : ChatEncodingOK(messages[1].parts, enc)
       /\ (dialect = "chat" /\ requests' = requests + 1) =>
            \A enc \in {Behind(request'.input)} : ChatEncodingOK(parts, enc)
      ]_vars

\* C27 witness: an input transcript of two resolved tool parts is encoded as
\* one assistant message with two tool calls followed by the two results,
\* and the engine has sent a request that carries a tool call it resolved.
C27_Witness ==
    /\ dialect = "chat"
    /\ messages[1].role = "assistant"
    /\ Len(messages[1].parts) = 2
    /\ ResolvedParts(messages[1].parts) = {1, 2}
    /\ Len(thread) = 3
    /\ Len(thread[1].tool_calls) = 2
    /\ thread[2].role = "tool" /\ thread[3].role = "tool"
    /\ requests = 2
    /\ pc = "Streaming"
    /\ ResolvedParts(parts) # {}
    /\ \E p \in 1..Len(parts) : parts[p].kind = "Text"
    /\ Len(request.input) > Len(thread) + 1

\* The number of items the parts before part p of a message are lowered to.
ItemsBefore(ps, p) == (p - 1) + Cardinality({q \in ResolvedParts(ps) : q < p})

\* The items of a Responses encoding of a given type that carry a call id.
ItemsOf(enc, type, id) ==
    {j \in 1..Len(enc) : enc[j].type = type /\ enc[j].call_id = id}

\* enc, the Responses encoding of the parts ps of a message of a role, has
\* the items of each part at the part's place.
ResponsesEncodingOK(role, ps, enc) ==
    /\ Len(enc) = Len(ps) + Cardinality(ResolvedParts(ps))
    /\ \A p \in 1..Len(ps) :
        LET at == ItemsBefore(ps, p) + 1
        IN  /\ at <= Len(enc)
            /\ IF ps[p].kind = "Text"
               THEN enc[at] = InputItem("message", role, 0, "", ps[p].text)
               ELSE IF ps[p].kind = "Error"
               THEN enc[at] = InputItem("message", "developer", 0, "", ps[p].text)
               ELSE /\ enc[at] = InputItem("function_call", "", ps[p].id, ps[p].name,
                                           to_string(ps[p].args))
                    /\ ItemsOf(enc, "function_call", ps[p].id) = {at}
                    /\ ItemsOf(enc, "function_call_output", ps[p].id) =
                          IF ps[p].result # None THEN {at + 1} ELSE {}
                    /\ ps[p].result # None =>
                          /\ at + 1 <= Len(enc)
                          /\ enc[at + 1].text = result_to_string(ps[p].result)

\* C28: the Responses encoding of a message, of the input transcript and of
\* the message the engine sends back with a request, lowers the parts in
\* order: one role-tagged message item per text part, one developer message
\* item per error part, one function-call item per tool part, immediately
\* followed by one function-call-output item of the same call id if and only
\* if the part has a result; the number of items is the number of parts plus
\* the number of tool parts that have a result.
C28_ResponsesLowering ==
    [][/\ (dialect = "responses" /\ pc # "Panicked") =>
            \A enc \in {thread} :
                ResponsesEncodingOK(messages[1].role, messages[1].parts, enc)
       /\ (dialect = "responses" /\ requests' = requests + 1) =>
            \A enc \in {Behind(request'.input)} :
                ResponsesEncodingOK("assistant", parts, enc)
      ]_vars

\* C28 witness: an input transcript of a resolved and an unresolved tool
\* part is lowered to a call, its output and a call, and the engine has sent
\* a request that carries a text part and a call it resolved.
C28_Witness ==
    /\ dialect = "responses"
    /\ messages[1].role = "assistant"
    /\ Len(messages[1].parts) = 2
    /\ ResolvedParts(messages[1].parts) = {1}
    /\ ToolParts(messages[1].parts) = {1, 2}
    /\ Len(thread) = 3
    /\ thread[1].type = "function_call"
    /\ thread[2].type = "function_call_output"
    /\ thread[3].type = "function_call"
    /\ requests = 2
    /\ pc = "Streaming"
    /\ ResolvedParts(parts) # {}
    /\ \E p \in 1..Len(parts) : parts[p].kind = "Text"
    /\ Len(request.input) = Len(thread) + Len(parts) + Cardinality(ResolvedParts(parts))

\* A message breaks a placement rule: it has a tool part and is not an
\* assistant message, or an error part and is not a developer message.
Misplaced(message) ==
    \E p \in 1..Len(message.parts) :
        \/ message.parts[p].kind = "Tool" /\ message.role # "assistant"
        \/ message.parts[p].kind = "Error" /\ message.role # "developer"

\* C29: in both dialects the encoding of a message fails if and only if the
\* message has, at any position, a tool part outside an assistant message or
\* an error part outside a developer message; an invocation whose input
\* transcript breaks a rule fails at once, and never emits an observation or
\* issues a request; the engine's own assistant message always encodes.
C29_PlacementRules ==
    /\ try_from(messages[1]).ok <=> ~Misplaced(messages[1])
    /\ Misplaced(messages[1]) =>
        /\ pc = "Panicked"
        /\ obs = << >>
        /\ requests = 0
        /\ request = NoRequest
    /\ ~Misplaced(messages[1]) => pc # "Panicked"
    /\ try_from(assistant_message).ok

\* C29 witness: the invocation has failed on a user message whose second
\* part, behind a text part, is a tool part.
C29_Witness ==
    /\ pc = "Panicked"
    /\ messages[1].role = "user"
    /\ Len(messages[1].parts) = 2
    /\ messages[1].parts[1].kind = "Text"
    /\ messages[1].parts[2].kind = "Tool"
    /\ obs = << >>

\* The argument string accumulated for a call of the turn.
Accumulated(key) ==
    IF dialect = "responses" THEN deltas[key].str ELSE tool_deltas[key].str

\* C30: when an argument fragment arrives for a tool call, the args of its
\* part become the repaired value of the whole string accumulated so far,
\* whatever the args were before, and null if that string cannot be
\* repaired; in that case the step emits no error observation and the engine
\* goes on consuming the stream.
C30_IrrepairableNotTerminal ==
    [][\A key \in DOMAIN delivered \cap DOMAIN delivered' :
        (/\ requests' = requests
         /\ Len(delivered'[key]) > Len(delivered[key])
         /\ parts[KeyPart(key) + 1].kind = "Tool") =>
            LET str == Accumulated(key)'
                tool == assistant_message'.parts[KeyPart(key) + 1]
            IN  /\ str = Accumulated(key) \o
                           SubSeq(delivered'[key], Len(delivered[key]) + 1,
                                  Len(delivered'[key]))
                /\ Repairable(str) => tool.args = Obj(CountTok(str, "a"))
                /\ ~Repairable(str) =>
                    /\ tool.args = Null
                    /\ pc' = "Streaming"
                    /\ \A i \in 1..Len(obs') : obs'[i].ok
      ]_vars

\* C30 witness: a fragment that ended inside an escape sequence left the
\* accumulated string irrepairable, the next fragment made it repairable and
\* args is the value of the whole string; no error was observed.
C30_Witness ==
    /\ dialect = "responses"
    /\ pc = "Streaming"
    /\ <<0, 0>> \in DOMAIN deltas
    /\ deltas[<<0, 0>>].str = <<"{", "\\", "a">>
    /\ parts[deltas[<<0, 0>>].part + 1].args = Obj(1)
    /\ \A i \in 1..Len(obs) : obs[i].ok

\* The demultiplexing map of the turn that tracks the tool calls.
CallMap == IF dialect = "responses" THEN deltas ELSE tool_deltas

\* The keys of the demultiplexing map that stand for a tool call.
CallKeys ==
    {key \in DOMAIN CallMap : assistant_message.parts[CallMap[key].part + 1].kind = "Tool"}

\* C31: within a turn the argument string the engine tracks for a tool call
\* only grows at its end: every call stays tracked, its string before a step
\* is a prefix of its string after the step, and when the string has grown
\* the args of the part are the parse of the new string alone (so the args
\* may fall back to null after having held a value).
C31_MonotoneArgumentString ==
    [][requests' = requests =>
        \A key \in CallKeys :
            /\ key \in CallKeys'
            /\ CallMap'[key].part = CallMap[key].part
            /\ IsPrefix(CallMap[key].str, CallMap'[key].str)
            /\ CallMap'[key].str # CallMap[key].str =>
                 assistant_message'.parts[CallMap[key].part + 1].args =
                     parse_incomplete_json(CallMap'[key].str)
      ]_vars

\* C31 witness: the string of a call to the streamable tool grew from "{" to "{{"
\* while the args of its part went from the empty object back to null.
C31_Witness ==
    /\ pc = "Streaming"
    /\ \E key \in CallKeys :
        /\ CallMap[key].str = <<"{", "{">>
        /\ parts[CallMap[key].part + 1].args = Null
        /\ Len(spawnLog) = 2
        /\ spawnLog[1].part = CallMap[key].part
        /\ spawnLog[1].args = Obj(0)
        /\ spawnLog[2].args = Null

\* C32: a request after the first is built only when every execution
\* spawned in the turn before has been joined and its result is written in
\* the part tagged at spawn, with no execution left in the set; the engine
\* passes from draining to the decision only on an empty set, with exactly
\* one Ok observation: the writes of the drain emit none, the step that
\* ends the drain emits one and leaves the message as it is, and the
\* decision emits none.
C32_JoinedBeforeReloop ==
    [][ /\ (requests' = requests + 1 /\ requests >= 1) =>
            /\ JoinSetIsEmpty
            /\ \A i \in SpawnedInTurn(spawnLog, requests) :
                /\ spawnLog[i].eid \in Joined
                /\ parts[spawnLog[i].part + 1].result # None
        /\ (pc = "Draining" /\ joinLog' # joinLog) => obs' = obs
        /\ (pc = "Draining" /\ pc' = "Decide") =>
            /\ JoinSetIsEmpty
            /\ Len(obs') = Len(obs) + 1
            /\ SubSeq(obs', 1, Len(obs)) = obs
            /\ obs'[Len(obs')].ok
            /\ assistant_message' = assistant_message
            /\ joinLog' = joinLog
        /\ pc' = "Decide" => pc = "Draining"
        /\ pc = "Decide" => (obs' = obs /\ assistant_message' = assistant_message)
      ]_vars

\* C32 witness: the second request was built after the two executions of
\* the first turn, which completed in the order opposite to their spawn,
\* were joined and their results written.
C32_Witness ==
    /\ requests = 2
    /\ pc = "Streaming"
    /\ Len(spawnLog) = 2
    /\ Len(joinLog) = 2
    /\ joinLog[1].eid = spawnLog[2].eid
    /\ spawnLog[1].part # spawnLog[2].part
    /\ \A i \in 1..2 : parts[spawnLog[i].part + 1].result # None

\* C33: the args a non-streamable tool is executed with are the parse of
\* the complete argument string of its call: the fragment of the announcing
\* event or chunk followed by every fragment delivered after it.
C33_FinalArgs ==
    [][\A i \in (Len(spawnLog) + 1)..Len(spawnLog') :
        ~is_streamable(spawnLog'[i].name) =>
            \A key \in CallKeys :
                CallMap[key].part = spawnLog'[i].part =>
                    spawnLog'[i].args = parse_incomplete_json(delivered[key])
      ]_vars

\* The Text parts of a message.
TextParts(ps) == {p \in 1..Len(ps) : ps[p].kind = "Text"}

\* C34: in the Chat dialect a content fragment goes to the last part of the
\* assistant message if that part is a Text part, which then holds its text
\* followed by the fragment, and otherwise to a new Text part, appended
\* behind the parts of the message, that holds the fragment alone; every
\* other Text part is left as it is, so that content behind a tool part
\* never reaches a text part in front of it.
C34_ChatTextDemux ==
    [][(dialect = "chat" /\ contentFed' # contentFed) =>
        LET n == Len(parts)
            fragment == SubSeq(contentFed', Len(contentFed) + 1, Len(contentFed'))
            next == assistant_message'.parts
        IN  /\ contentFed' = contentFed \o fragment
            /\ IF n > 0 /\ parts[n].kind = "Text"
               THEN /\ Len(next) >= n
                    /\ next[n] = TextPart(parts[n].text \o fragment)
                    /\ TextParts(next) = TextParts(parts)
                    /\ \A p \in TextParts(parts) \ {n} : next[p] = parts[p]
               ELSE /\ Len(next) >= n + 1
                    /\ next[n + 1] = TextPart(fragment)
                    /\ TextParts(next) = TextParts(parts) \cup {n + 1}
                    /\ \A p \in TextParts(parts) : next[p] = parts[p]
      ]_vars

\* C34 witness: content that arrived behind a tool part stands in a Text
\* part of its own, and the text part in front of the tool part holds what
\* it held.
C34_Witness ==
    /\ dialect = "chat"
    /\ Len(parts) = 3
    /\ parts[1] = TextPart(<<"h">>)
    /\ parts[2].kind = "Tool"
    /\ parts[3] = TextPart(<<"i">>)
    /\ contentFed = <<"h", "i">>

\* C35: a step the engine takes while it consumes a turn's event stream,
\* the end of the stream included, writes no result other than the "No such
\* tool" diagnostic of the call's own name; the completion of an execution
\* writes nothing, and a return value or an error is written only by a join
\* of the draining phase.
C35_NoOutcomeWhileStreaming ==
    [][\A p \in 1..Len(parts) :
        (parts[p].kind = "Tool" /\ assistant_message'.parts[p].result # parts[p].result) =>
            /\ pc = "Streaming" =>
                 assistant_message'.parts[p].result = NoSuchTool(parts[p].name)
            /\ assistant_message'.parts[p].result.kind \in {"Ret", "Error"} =>
                 /\ pc = "Draining"
                 /\ joinLog' # joinLog
                 /\ joinLog'[Len(joinLog')].part = p - 1
      ]_vars

\* C35 witness: the execution of a call has completed while the stream,
\* which went on with a text part, is still being consumed, and the call
\* has no result.
C35_Witness ==
    /\ pc = "Streaming"
    /\ Len(finished) = 1
    /\ running = {}
    /\ Len(spawnLog) = 1
    /\ spawnLog[1].at = "done"
    /\ parts[finished[1].part + 1].result = None
    /\ Len(parts) = 2
    /\ parts[2].kind = "Text"

\* C36: every turn starts with an empty demultiplexing map and an empty
\* execution set; no step changes a part that was appended in an earlier
\* turn (the parts up to turnStart), and an execution is spawned only for a
\* part appended in the current turn, in both dialects.
C36_TurnIsolation ==
    [][ /\ requests' = requests + 1 =>
            /\ deltas' = EmptyMap
            /\ tool_deltas' = EmptyMap
            /\ running' = {}
            /\ finished' = << >>
        /\ \A p \in 1..turnStart : assistant_message'.parts[p] = parts[p]
        /\ \A i \in (Len(spawnLog) + 1)..Len(spawnLog') :
            /\ spawnLog'[i].turn = requests
            /\ spawnLog'[i].part >= turnStart
      ]_vars

\* The keys the backend has announced in the turn: (output_index,
\* content_index) of every content part and (output_index, 0) of every
\* function call in Responses, the tool indexes in Chat.
AnnouncedKeys ==
    IF dialect = "responses"
    THEN UNION {{<<o, c>> : c \in 0..(IF items[o + 1].type = "fc" THEN 0
                                      ELSE items[o + 1].ncontent - 1)} :
                o \in 0..(Len(items) - 1)}
    ELSE 0..(Len(items) - 1)

\* The kind of part an announced key stands for.
KeyKind(key) ==
    IF dialect = "chat" THEN "Tool"
    ELSE IF items[key[1] + 1].type = "fc" THEN "Tool" ELSE "Text"

\* C37: on event streams that announce every key before its deltas, and
\* one item per output index, the lookups and assertions of the handlers
\* hold: the map of the turn has an entry for every key announced in the
\* turn and no other; the part index of each entry is within the part
\* vector, belongs to the turn, is that of no other entry, and designates
\* a Text part for a content key and a Tool part for a call key; the part
\* index tagged onto each execution designates a Tool part; and the engine
\* panics only on a task that panicked.
C37_AssertionsHold ==
    /\ DOMAIN CallMap = AnnouncedKeys
    /\ \A key \in DOMAIN CallMap :
        /\ CallMap[key].part + 1 \in (turnStart + 1)..Len(parts)
        /\ parts[CallMap[key].part + 1].kind = KeyKind(key)
        /\ \A other \in DOMAIN CallMap :
            CallMap[other].part = CallMap[key].part => other = key
    /\ \A t \in Held :
        /\ t.part + 1 \in (turnStart + 1)..Len(parts)
        /\ parts[t.part + 1].kind = "Tool"
    /\ pc = "Panicked" =>
        \E i \in 1..Len(spawnLog) : Outcome(spawnLog[i].args).panic

\* C37 witness: the Responses map holds a content key and a call key, the
\* call's part stands behind the text part, and both have received a delta.
C37_Witness ==
    /\ dialect = "responses"
    /\ pc = "Streaming"
    /\ DOMAIN deltas = {<<0, 0>>, <<1, 0>>}
    /\ deltas[<<0, 0>>].part = 0
    /\ deltas[<<1, 0>>].part = 1
    /\ parts[1].kind = "Text" /\ Len(parts[1].text) >= 1
    /\ parts[2].kind = "Tool" /\ parts[2].args # Null

====
